---- MODULE Spec2Model ----
(***************************************************************************)
(* Model of the audio job queue (services/audio_queue.py) and of the audio *)
(* generation orchestrator (services/audio_generator.py).                  *)
(*                                                                         *)
(* A Python dict is modelled as a sequence of records in insertion order   *)
(* (dicts keep insertion order, and json keeps it across a reload).        *)
(* Time is a tick counter; TicksPerSec ticks make one epoch second, so     *)
(* int(time.time()) is now \div TicksPerSec while datetime.now() keeps the *)
(* sub-second part.                                                        *)
(***************************************************************************)
EXTENDS Integers, Sequences, FiniteSets, TLC

\* ------------------------------------------------------------ bounds
MaxAdds == 3
MaxPosts == 2
MaxTime == 3
TicksPerSec == 2
MaxDirect == 1
MaxListed == 3
MaxPieces == 3
MaxCleanPieces == 2
MaxBatch == 2
MaxUpdates == 2
Unbounded == 99

\* ------------------------------------------------------------ values
None == "None"
NoTime == -1
NoPath == <<>>
NoResult == [absent |-> TRUE]

PostIds == 1..MaxPosts

\* The narration text of a post after process_post, by the features the
\* safety check reads: a [removed]/[deleted] marker, the stripped length, the
\* number of profanity matches and the number of words.
LongText == [marker |-> FALSE, length |-> 40, profanity_count |-> 0, word_count |-> 8]
EmptyText == [marker |-> FALSE, length |-> 0, profanity_count |-> 0, word_count |-> 0]
Texts == {LongText, EmptyText}

\* The fetched posts: one per id, those with an even id without any text (what
\* the queue route stores for a bare post id, {'id': post_id}).
TextOf(id) == IF id % 2 = 0 THEN EmptyText ELSE LongText

Posts == {[id |-> id, tts_text |-> TextOf(id)] : id \in PostIds}

\* Priority arguments a caller may pass, inside and outside 1..10.
PriorityArgs == {0, 7, 12}

\* str(e) of an exception and the error text of an engine failure; the empty
\* string is the message of an exception raised without arguments.
Msgs == {"", "boom"}

EngineTypes == {"gtts", "mock"}

\* The values of the QueueStatus enum; no queue operation assigns "skipped".
QueueStatus == {"pending", "processing", "completed", "failed", "skipped"}

VARIABLES
    now,             \* the wall clock, in ticks
    queue,           \* AudioQueue.queue: items in dict order
    queue_file,      \* audio_queue.json
    audio_generator, \* AudioQueue.audio_generator: <<>> or <<generator>>
    metadata_file,   \* audio_metadata.json
    audio_files,     \* the audio files on disk (their paths)
    pc,              \* position inside process_queue, "idle" outside it
    pending_items,   \* process_queue's local list of items
    cur,             \* index of the item process_queue is at
    stats,           \* process_queue's local statistics
    last,            \* the last call from outside the queue: its arguments and result
    arrivals,        \* log: the ids in the queue, in the order of their add_post calls
    attempted,       \* log: generate_from_post calls of the running process_queue
    failures,        \* log: per queue id, the generation attempts that failed
    adds,            \* number of add_post calls so far
    direct           \* number of direct update_status calls so far

vars == <<now, queue, queue_file, audio_generator, metadata_file, audio_files,
          pc, pending_items, cur, stats, last, arrivals, attempted,
          failures, adds, direct>>

\* ------------------------------------------------------------ helpers
Min(a, b) == IF a < b THEN a ELSE b
Max(a, b) == IF a > b THEN a ELSE b

Range(s) == {s[i] : i \in 1..Len(s)}

Keys(q) == {q[i].id : i \in 1..Len(q)}

IndexOf(q, k) == CHOOSE i \in 1..Len(q) : q[i].id = k

Item(q, k) == q[IndexOf(q, k)]

\* dict[k] = v: an existing key keeps its position, a new key goes last.
DictSet(q, k, v) ==
    IF k \in Keys(q)
    THEN [i \in 1..Len(q) |-> IF q[i].id = k THEN v ELSE q[i]]
    ELSE Append(q, v)

\* The function f with f[k] = v, k added to its domain if need be.
Put(f, k, v) == [x \in DOMAIN f \cup {k} |-> IF x = k THEN v ELSE f[x]]

\* The sequence s without its entries equal to k.
Without(s, k) == LET Other(x) == x # k IN SelectSeq(s, Other)

\* The entries of the sequence s that are in the set S.
Within(s, S) == LET In(x) == x \in S IN SelectSeq(s, In)

\* Python truthiness of an Optional[str]: None and "" are both false.
Truthy(s) == s # None /\ s # ""

EpochSeconds(t) == t \div TicksPerSec

\* datetime.isoformat(): the seconds, then the fraction unless it is zero.
\* Modelled as the sequence the string comparison walks through.
IsoFormat(t) ==
    IF t % TicksPerSec = 0 THEN <<EpochSeconds(t)>>
    ELSE <<EpochSeconds(t), t % TicksPerSec>>

\* String comparison a < b of two isoformat strings: a proper prefix is smaller.
StrLess(a, b) ==
    \/ a[1] < b[1]
    \/ /\ a[1] = b[1]
       /\ \/ Len(a) < Len(b)
          \/ Len(a) = 2 /\ Len(b) = 2 /\ a[2] < b[2]

\* ------------------------------------------------------------ persistence
\* json.dump of a dict of JSON-native values, then json.load: the document
\* holds the same keys in the same order. A file that is missing, truncated
\* or otherwise unreadable is ok = FALSE.
JsonDump(d) == [ok |-> TRUE, data |-> d]
MissingFile == [ok |-> FALSE, data |-> <<>>]
TruncatedFile == [ok |-> FALSE, data |-> <<>>, partial |-> TRUE]

\* AudioQueue._load_queue: {} when the file is missing or does not parse.
LoadQueue(f) == IF f.ok THEN f.data ELSE <<>>

\* AudioQueue._save_queue: open(..., 'w') and json.dump of the whole map.
SaveQueue(q) == JsonDump(q)

\* AudioGenerator._load_metadata
LoadMetadata(f) == IF f.ok THEN f.data ELSE <<>>

\* ------------------------------------------------------------ the queue
\* A sort key that forgets the minus sign: lower priority first.
KeyLessAscending(a, b) ==
    \/ a.priority < b.priority
    \/ /\ a.priority = b.priority
       /\ StrLess(IsoFormat(a.added_at), IsoFormat(b.added_at))

\* The key of pending.sort: (-priority, added_at), added_at compared as text.
KeyLess(a, b) ==
    \/ a.priority > b.priority
    \/ /\ a.priority = b.priority
       /\ StrLess(IsoFormat(a.added_at), IsoFormat(b.added_at))

\* list.sort is stable: x goes after every element that is not greater.
InsertSorted(s, x) ==
    LET k == Cardinality({i \in 1..Len(s) : ~KeyLess(x, s[i])})
    IN  SubSeq(s, 1, k) \o <<x>> \o SubSeq(s, k + 1, Len(s))

RECURSIVE SortItems(_)
SortItems(s) ==
    IF s = <<>> THEN <<>>
    ELSE InsertSorted(SortItems(SubSeq(s, 1, Len(s) - 1)), s[Len(s)])

\* A filter that also lets failed items through.
IsPendingOrFailed(item) == item.status \in {"pending", "failed"}

IsPending(item) == item.status = "pending"

get_pending_items(q) == SortItems(SelectSeq(q, IsPending))

\* max(1, min(10, priority))
ClampPriority(p) == Max(1, Min(10, p))

\* A queue id that leaves the second out.
QueueIdWithoutSecond(post, t) == <<post.id, 0>>

QueueId(post, t) == <<post.id, EpochSeconds(t)>>

NewItem(post, priority, t) ==
    [id |-> QueueId(post, t),
     post_id |-> post.id,
     post_data |-> post,
     priority |-> ClampPriority(priority),
     status |-> "pending",
     added_at |-> t,
     processed_at |-> NoTime,
     attempts |-> 0,
     error |-> None,
     result |-> NoResult]

\* `if result:` - None and the empty dict are false.
ResultGiven(r) == r # NoResult

\* A status update that leaves an item in processing once it is there.
update_status_stuck(q, k, status, result, error, t) ==
    IF k \notin Keys(q) THEN q
    ELSE [i \in 1..Len(q) |->
            IF q[i].id # k THEN q[i]
            ELSE [q[i] EXCEPT
                    !.status = IF @ = "processing" THEN @ ELSE status,
                    !.attempts = @ + 1]]

\* AudioQueue.update_status, without the save that ends it.
update_status(q, k, status, result, error, t) ==
    IF k \notin Keys(q) THEN q
    ELSE [i \in 1..Len(q) |->
            IF q[i].id # k THEN q[i]
            ELSE [q[i] EXCEPT
                    !.status = status,
                    !.attempts = @ + 1,
                    !.processed_at =
                        IF status \in {"completed", "failed"} THEN t ELSE @,
                    !.result = IF ResultGiven(result) THEN result ELSE @,
                    !.error = IF Truthy(error) THEN error ELSE @]]

\* A retry test without the attempt cap.
RetryableUncapped(item) == item.status = "failed"

\* The test of retry_failed's loop.
Retryable(item) == item.status = "failed" /\ item.attempts < 3

ResetItem(item) ==
    IF Retryable(item) THEN [item EXCEPT !.status = "pending", !.error = None]
    ELSE item

IdsOf(s) == [i \in 1..Len(s) |-> s[i].id]

\* What retry_failed returns: the ids it reset, in dict order.
RetryReturn(q) == IdsOf(SelectSeq(q, Retryable))

IsCompleted(item) == item.status = "completed"
NotCompleted(item) == ~IsCompleted(item)

\* ------------------------------------------------------------ the generator
\* TextProcessor.process_post: a copy of the post with the narration text.
process_post(post) ==
    [id |-> post.id, tts_text |-> post.tts_text, should_skip |-> FALSE,
     profanity_ratio_num |-> 0, profanity_ratio_den |-> 1]

\* ContentFilter.filter_post with the default configuration (skip_nsfw is
\* not set, so should_skip never is): the copy gains filter_stats, whose
\* profanity_ratio is profanity_count / word_count, 0.0 without words.
filter_post(processed) ==
    [processed EXCEPT
        !.profanity_ratio_num =
            IF processed.tts_text.word_count > 0
            THEN processed.tts_text.profanity_count ELSE 0,
        !.profanity_ratio_den =
            IF processed.tts_text.word_count > 0
            THEN processed.tts_text.word_count ELSE 1]

\* A safety check whose ratio test is >= instead of >.
is_safe_for_tts_inclusive(filtered) ==
    /\ ~filtered.should_skip
    /\ ~filtered.tts_text.marker
    /\ ~(filtered.tts_text.length < 10)
    /\ ~(10 * filtered.profanity_ratio_num >= 3 * filtered.profanity_ratio_den)

\* ContentFilter.is_safe_for_tts; ratio > 0.3 as 10 * count > 3 * words.
is_safe_for_tts(filtered) ==
    /\ ~filtered.should_skip
    /\ ~filtered.tts_text.marker
    /\ ~(filtered.tts_text.length < 10)
    /\ ~(10 * filtered.profanity_ratio_num > 3 * filtered.profanity_ratio_den)

\* AudioGenerator._audio_exists
audio_exists(metadata, files, post_id) ==
    /\ post_id \in DOMAIN metadata
    /\ metadata[post_id].file_path # NoPath
    /\ metadata[post_id].file_path \in files

\* AudioGenerator._generate_filename: subreddit, cleaned title and the time
\* to the second; the post's id stands for its subreddit and title.
generate_filename(post, t) == <<post.id, EpochSeconds(t)>>

\* A result dict; a key the dict does not hold reads as None through .get().
Result(success, post_id, file_path, error, reason, engine, generated_at) ==
    [success |-> success, post_id |-> post_id, file_path |-> file_path,
     error |-> error, reason |-> reason, engine |-> engine,
     generated_at |-> generated_at]

NoPostId == 0

\* What the environment decides for one generate_from_post call: whether the
\* text pipeline raises, and whether the engine returns a success, returns a
\* failure dict or raises. The mock engine always succeeds.
EngineKinds(engine_type) ==
    IF engine_type = "mock" THEN {"ok"} ELSE {"ok", "fail", "raise"}

Envs(engine_type) ==
    [pipeline : {"ok"}, engine : EngineKinds(engine_type), msg : Msgs]
    \cup [pipeline : {"raise"}, engine : {"ok"}, msg : Msgs]

\* AudioGenerator._save_audio_metadata: the in-memory map after the write.
save_audio_metadata(metadata, post_id, record) ==
    [p \in DOMAIN metadata \cup {post_id} |->
        IF p = post_id THEN record ELSE metadata[p]]

\* An AudioGenerator: its engine type and its in-memory metadata map.
AudioGenerator(engine_type, mfile) ==
    [engine_type |-> engine_type, metadata |-> LoadMetadata(mfile)]

\* What a generate_from_post call leaves behind.
Outcome(raised, msg, result, metadata, mfile, files, engine_called, filter_called) ==
    [raised |-> raised, msg |-> msg, result |-> result, metadata |-> metadata,
     metadata_file |-> mfile, audio_files |-> files,
     engine_called |-> engine_called, filter_called |-> filter_called]

\* generate_from_post, lines 73-75: the stored record, nothing else touched.
OnCached(gen, mfile, files, post_id) ==
    Outcome(FALSE, None, gen.metadata[post_id], gen.metadata, mfile, files,
            FALSE, FALSE)

\* An unsafe verdict that is logged and then ignored: the engine runs and its
\* record is stored.
OnUnsafeFallThrough(gen, mfile, files, post_id) ==
    LET record == Result(TRUE, post_id, NoPath, None, None, gen.engine_type, NoTime)
        metadata == save_audio_metadata(gen.metadata, post_id, record)
    IN  Outcome(FALSE, None, record, metadata, JsonDump(metadata), files, TRUE, TRUE)

\* generate_from_post, lines 98-104: the unsafe verdict.
OnUnsafe(gen, mfile, files, post_id) ==
    Outcome(FALSE, None,
            Result(FALSE, post_id, NoPath, None, "Content filtered as unsafe",
                   None, NoTime),
            gen.metadata, mfile, files, FALSE, TRUE)

\* generate_from_post, lines 142-148: the engine raised.
OnEngineRaise(gen, mfile, files, post_id, msg) ==
    Outcome(FALSE, None,
            Result(FALSE, post_id, NoPath, msg, None, None, NoTime),
            gen.metadata, mfile, files, TRUE, TRUE)

\* An engine failure whose result is stored like a success.
OnEngineFailStored(gen, mfile, files, post_id, msg) ==
    LET record == Result(FALSE, NoPostId, NoPath, msg, None, gen.engine_type, NoTime)
        metadata == save_audio_metadata(gen.metadata, post_id, record)
    IN  Outcome(FALSE, None, record, metadata, JsonDump(metadata), files, TRUE, TRUE)

\* generate_from_post, lines 137-140: the engine's own failure dict, which
\* holds engine, success and error only.
OnEngineFail(gen, mfile, files, post_id, msg) ==
    Outcome(FALSE, None,
            Result(FALSE, NoPostId, NoPath, msg, None, gen.engine_type, NoTime),
            gen.metadata, mfile, files, TRUE, TRUE)

\* generate_from_post, lines 119-136: the engine wrote the audio file; its
\* result, completed with the post's data, is stored and the store written.
OnEngineSuccess(gen, mfile, files, post, t) ==
    LET path == generate_filename(post, t)
        record == Result(TRUE, post.id, path, None, None, gen.engine_type, t)
        metadata == save_audio_metadata(gen.metadata, post.id, record)
    IN  Outcome(FALSE, None, record, metadata, JsonDump(metadata),
                files \cup {path}, TRUE, TRUE)

\* A check that never finds the stored audio.
NeverStored(gen, files, post_id, force_regenerate) == FALSE

\* Whether generate_from_post answers from the store (line 73).
UseStored(gen, files, post_id, force_regenerate) ==
    ~force_regenerate /\ audio_exists(gen.metadata, files, post_id)

\* AudioGenerator.generate_from_post on generator gen, at time t. An
\* exception of the text pipeline (lines 81-95) leaves the call.
generate_from_post(gen, mfile, files, post, force_regenerate, env, t) ==
    IF UseStored(gen, files, post.id, force_regenerate)
    THEN OnCached(gen, mfile, files, post.id)
    ELSE IF env.pipeline = "raise"
    THEN Outcome(TRUE, env.msg, NoResult, gen.metadata, mfile, files, FALSE, FALSE)
    ELSE IF ~is_safe_for_tts(filter_post(process_post(post)))
    THEN OnUnsafe(gen, mfile, files, post.id)
    ELSE IF env.engine = "raise"
    THEN OnEngineRaise(gen, mfile, files, post.id, env.msg)
    ELSE IF env.engine = "fail"
    THEN OnEngineFail(gen, mfile, files, post.id, env.msg)
    ELSE OnEngineSuccess(gen, mfile, files, post, t)

\* ------------------------------------------------------------ process_queue
NoStats == [processed |-> 0, successful |-> 0, failed |-> 0]

\* pending_items[:max_items] when max_items is given and not zero; max_items
\* is <<>> for None and <<n>> for the integer n.
Truncate(items, max_items) ==
    IF max_items = <<>> \/ max_items[1] = 0 THEN items
    ELSE IF max_items[1] > 0 THEN SubSeq(items, 1, Min(max_items[1], Len(items)))
    ELSE SubSeq(items, 1, Max(0, Len(items) + max_items[1]))

MaxItemsArgs == {<<>>, <<0>>, <<1>>, <<2>>}

\* What process_queue passes to update_status for the outcome of one item
\* (lines 156-168).
ItemStatus(out) ==
    IF ~out.raised /\ out.result.success THEN "completed" ELSE "failed"

ItemError(out) ==
    IF out.raised THEN out.msg
    ELSE IF out.result.success THEN None ELSE out.result.error

ItemResult(out) ==
    IF ~out.raised /\ out.result.success THEN out.result ELSE NoResult

\* ------------------------------------------------------------ the system
Init ==
    /\ now = 0
    /\ queue_file = MissingFile
    /\ queue = LoadQueue(MissingFile)
    /\ audio_generator = <<>>
    /\ metadata_file = MissingFile
    /\ audio_files = {}
    /\ pc = "idle"
    /\ pending_items = <<>>
    /\ cur = 0
    /\ stats = NoStats
    /\ last = [op |-> "none"]
    /\ arrivals = <<>>
    /\ attempted = <<>>
    /\ failures = <<>>
    /\ adds = 0
    /\ direct = 0

\* Time passes between two calls.
Tick ==
    /\ pc = "idle"
    /\ now < MaxTime
    /\ now' = now + 1
    /\ UNCHANGED <<queue, queue_file, audio_generator, metadata_file, audio_files,
                   pc, pending_items, cur, stats, last, arrivals, attempted,
                   failures, adds, direct>>

\* AudioQueue.add_post, called `wait` ticks after the previous call ended.
\* The call writes the snapshot file, so the clock has moved on by the time
\* the next call reads it.
AddPost(post, priority, wait) ==
    /\ pc = "idle"
    /\ adds < MaxAdds
    /\ now + wait < MaxTime
    /\ LET t == now + wait
       IN  /\ queue' = DictSet(queue, QueueId(post, t), NewItem(post, priority, t))
           /\ queue_file' = SaveQueue(queue')
           /\ arrivals' = Append(Without(arrivals, QueueId(post, t)), QueueId(post, t))
           /\ failures' = Put(failures, QueueId(post, t), 0)
           /\ now' = t + 1
    /\ adds' = adds + 1
    /\ UNCHANGED <<audio_generator, metadata_file, audio_files, pc, pending_items,
                   cur, stats, last, attempted, direct>>

\* AudioQueue.retry_failed
RetryFailed ==
    /\ pc = "idle"
    /\ queue' = [i \in 1..Len(queue) |-> ResetItem(queue[i])]
    /\ queue_file' = IF SelectSeq(queue, Retryable) # <<>> THEN SaveQueue(queue')
                     ELSE queue_file
    /\ UNCHANGED <<now, audio_generator, metadata_file, audio_files, pc,
                   pending_items, cur, stats, last, arrivals, attempted,
                   failures, adds, direct>>

\* AudioQueue.clear_completed
ClearCompleted ==
    /\ pc = "idle"
    /\ queue' = SelectSeq(queue, NotCompleted)
    /\ queue_file' = IF SelectSeq(queue, IsCompleted) # <<>> THEN SaveQueue(queue')
                     ELSE queue_file
    /\ arrivals' = Within(arrivals, Keys(queue'))
    /\ failures' = [k \in Keys(queue') |-> failures[k]]
    /\ UNCHANGED <<now, audio_generator, metadata_file, audio_files, pc,
                   pending_items, cur, stats, last, attempted, adds, direct>>

\* AudioQueue.process_queue, lines 126-143: the generator is created on the
\* first call only; the pending items are listed and cut to max_items.
ProcessBegin(max_items, engine_type) ==
    /\ pc = "idle"
    /\ audio_generator' =
          IF audio_generator = <<>>
          THEN <<AudioGenerator(engine_type, metadata_file)>>
          ELSE audio_generator
    /\ pending_items' = Truncate(IdsOf(get_pending_items(queue)), max_items)
    /\ stats' = NoStats
    /\ attempted' = <<>>
    /\ cur' = 1
    /\ pc' = IF pending_items' = <<>> THEN "return" ELSE "claim"
    /\ UNCHANGED <<now, queue, queue_file, metadata_file, audio_files, last,
                   arrivals, failures, adds, direct>>

\* process_queue, line 150: the item is marked processing.
ProcessClaim ==
    /\ pc = "claim"
    /\ queue' = update_status(queue, pending_items[cur], "processing", NoResult,
                              None, now)
    /\ queue_file' = SaveQueue(queue')
    /\ pc' = "generate"
    /\ UNCHANGED <<now, audio_generator, metadata_file, audio_files, pending_items,
                   cur, stats, last, arrivals, attempted, failures, adds, direct>>

\* process_queue, lines 152-170: one generation and the outcome recorded.
ProcessGenerate(env) ==
    /\ pc = "generate"
    /\ env \in Envs(audio_generator[1].engine_type)
    /\ LET k == pending_items[cur]
           gen == audio_generator[1]
           out == generate_from_post(gen, metadata_file, audio_files,
                                     Item(queue, k).post_data, FALSE, env, now)
           ok == ItemStatus(out) = "completed"
       IN  /\ audio_generator' = <<[gen EXCEPT !.metadata = out.metadata]>>
           /\ metadata_file' = out.metadata_file
           /\ audio_files' = out.audio_files
           /\ attempted' = Append(attempted, k)
           /\ failures' = IF ok THEN failures ELSE Put(failures, k, failures[k] + 1)
           /\ queue' = update_status(queue, k, ItemStatus(out), ItemResult(out),
                                     ItemError(out), now)
           /\ queue_file' = SaveQueue(queue')
           /\ stats' = [processed |-> stats.processed + 1,
                        successful |-> stats.successful + (IF ok THEN 1 ELSE 0),
                        failed |-> stats.failed + (IF ok THEN 0 ELSE 1)]
    /\ cur' = cur + 1
    /\ pc' = IF cur = Len(pending_items) THEN "return" ELSE "claim"
    /\ UNCHANGED <<now, pending_items, last, arrivals, adds, direct>>

\* process_queue, lines 176-184: the call returns stats; its locals are gone.
ProcessReturn ==
    /\ pc = "return"
    /\ pc' = "idle"
    /\ pending_items' = <<>>
    /\ cur' = 0
    /\ stats' = NoStats
    /\ attempted' = <<>>
    /\ UNCHANGED <<now, queue, queue_file, audio_generator, metadata_file,
                   audio_files, last, arrivals, failures, adds, direct>>

\* get_audio_generator(engine_type).generate_from_post(post, force_regenerate)
\* called from outside the queue: the generator is a new one each time,
\* get_audio_generator making a new instance whenever an engine type is given.
GenerateCall(post, force_regenerate, engine_type, env) ==
    /\ pc = "idle"
    /\ LET gen == AudioGenerator(engine_type, metadata_file)
           out == generate_from_post(gen, metadata_file, audio_files, post,
                                     force_regenerate, env, now)
       IN  /\ metadata_file' = out.metadata_file
           /\ audio_files' = out.audio_files
           /\ last' = [op |-> "generate_from_post", post |-> post,
                       force_regenerate |-> force_regenerate, env |-> env,
                       metadata_before |-> gen.metadata,
                       file_before |-> metadata_file,
                       audio_before |-> audio_files,
                       out |-> out]
    /\ UNCHANGED <<now, queue, queue_file, audio_generator, pc, pending_items, cur,
                   stats, arrivals, attempted, failures, adds, direct>>

\* The delete route of the audio API: the file is unlinked, the metadata
\* store is not touched.
delete_audio(path) ==
    /\ pc = "idle"
    /\ path \in audio_files
    /\ audio_files' = audio_files \ {path}
    /\ UNCHANGED <<now, queue, queue_file, audio_generator, metadata_file, pc,
                   pending_items, cur, stats, last, arrivals, attempted,
                   failures, adds, direct>>

\* The calls on the queue object.
QueueNext ==
    \/ \E post \in Posts, priority \in PriorityArgs, wait \in 0..1 :
          AddPost(post, priority, wait)
    \/ RetryFailed
    \/ ClearCompleted
    \/ \E max_items \in MaxItemsArgs, engine_type \in EngineTypes :
          ProcessBegin(max_items, engine_type)
    \/ ProcessClaim
    \/ \E env \in Envs("gtts") : ProcessGenerate(env)
    \/ ProcessReturn

Next == QueueNext

Spec == Init /\ [][Next]_vars

\* The generator on its own: calls of generate_from_post, the clock, and
\* deletions of audio files.
GenNext ==
    \/ Tick
    \/ \E post \in Posts, force \in BOOLEAN, engine_type \in EngineTypes :
          \E env \in Envs(engine_type) : GenerateCall(post, force, engine_type, env)
    \/ \E path \in audio_files : delete_audio(path)

SpecGen == Init /\ [][GenNext]_vars

\* The calls on the queue object with the arguments that decide nothing about
\* status changes and persistence left at one value: the default engine, no
\* max_items, one in-range priority, calls back to back.
PlainQueueNext ==
    \/ \E post \in Posts : AddPost(post, 7, 0)
    \/ RetryFailed
    \/ ClearCompleted
    \/ ProcessBegin(<<>>, "gtts")
    \/ ProcessClaim
    \/ \E env \in Envs("gtts") : ProcessGenerate(env)
    \/ ProcessReturn

\* ------------------------------------------------------------ direct calls
\* AudioQueue.update_status called from outside process_queue (the method is
\* public), with its save.
UpdateStatusCall(k, status, result, error) ==
    /\ pc = "idle"
    /\ direct < MaxDirect
    /\ k \in Keys(queue)
    /\ queue' = update_status(queue, k, status, result, error, now)
    /\ queue_file' = SaveQueue(queue')
    /\ direct' = direct + 1
    /\ UNCHANGED <<now, audio_generator, metadata_file, audio_files, pc,
                   pending_items, cur, stats, last, arrivals, attempted,
                   failures, adds>>

\* The results and errors a direct caller passes.
SomeResult == Result(TRUE, NoPostId, NoPath, None, None, None, NoTime)

ApiNext ==
    \/ PlainQueueNext
    \/ \E k \in Keys(queue), status \in QueueStatus,
          result \in {NoResult, SomeResult}, error \in {None, "boom"} :
          UpdateStatusCall(k, status, result, error)

SpecApi == Init /\ [][ApiNext]_vars

\* ------------------------------------------------------------ crashes
\* The process starts again: AudioQueue.__init__ loads the snapshot file and
\* has no generator yet; everything else in memory is gone.
Restart(file) ==
    /\ queue' = LoadQueue(file)
    /\ audio_generator' = <<>>
    /\ pc' = "idle"
    /\ pending_items' = <<>>
    /\ cur' = 0
    /\ stats' = NoStats
    /\ attempted' = <<>>
    /\ last' = [op |-> "none"]
    /\ arrivals' = Within(arrivals, Keys(LoadQueue(file)))
    /\ failures' = [k \in Keys(LoadQueue(file)) |-> failures[k]]

\* The process dies between two statements of process_queue and is started
\* again.
Crash ==
    /\ pc \in {"claim", "generate", "return"}
    /\ Restart(queue_file)
    /\ UNCHANGED <<now, queue_file, metadata_file, audio_files, adds, direct>>

\* The process dies inside the _save_queue that ends update_status(PROCESSING):
\* open(..., 'w') has emptied the file and json.dump has not finished.
CrashInSave ==
    /\ pc = "claim"
    /\ queue_file' = TruncatedFile
    /\ Restart(TruncatedFile)
    /\ UNCHANGED <<now, metadata_file, audio_files, adds, direct>>

CrashNext ==
    \/ PlainQueueNext
    \/ Crash
    \/ CrashInSave

SpecCrash == Init /\ [][CrashNext]_vars

\* ------------------------------------------------------------ C1
\* The place of a queue id in the order of the add_post calls.
ArrivalIndex(k) == CHOOSE i \in 1..Len(arrivals) : arrivals[i] = k

IsPrefix(s, t) == Len(s) <= Len(t) /\ s = SubSeq(t, 1, Len(s))

PendingReturned == get_pending_items(queue)

\* C1 (first half): get_pending_items returns exactly the pending items, each
\* once, higher priority first and, within a priority, in enqueue order.
PendingOrdered ==
    /\ Len(PendingReturned) = Cardinality({i \in 1..Len(queue) : IsPending(queue[i])})
    /\ \A i \in 1..Len(PendingReturned) :
          /\ PendingReturned[i] \in Range(queue)
          /\ PendingReturned[i].status = "pending"
    /\ \A i, j \in 1..Len(PendingReturned) :
          i < j =>
             \/ PendingReturned[i].priority > PendingReturned[j].priority
             \/ /\ PendingReturned[i].priority = PendingReturned[j].priority
                /\ ArrivalIndex(PendingReturned[i].id)
                      < ArrivalIndex(PendingReturned[j].id)

\* C1 (second half): process_queue attempts generation in that order: what
\* it has attempted so far is the start of its list, and what it has still to
\* attempt is the start of what get_pending_items returns now.
ProcessedInOrder ==
    /\ pc \in {"claim", "generate", "return"} =>
          /\ Len(attempted) <= Len(pending_items)
          /\ attempted = SubSeq(pending_items, 1, Len(attempted))
          /\ Len(attempted) = cur - 1
    /\ pc = "claim" =>
          IsPrefix(SubSeq(pending_items, cur, Len(pending_items)),
                   IdsOf(PendingReturned))

\* C1: for any sequence of add_post calls, get_pending_items returns exactly
\* the pending items by priority descending, then enqueue order, and
\* process_queue attempts generation in that same order.
C1_PriorityThenArrival == PendingOrdered /\ ProcessedInOrder

\* Priorities 1, 7, 7 enqueued in that order have been attempted as the first
\* 7, the second 7, then the 1.
C1_Witness ==
    /\ pc = "return"
    /\ Len(attempted) = 3
    /\ Len(arrivals) = 3
    /\ attempted = <<arrivals[2], arrivals[3], arrivals[1]>>
    /\ Item(queue, arrivals[1]).priority = 1
    /\ Item(queue, arrivals[2]).priority = 7
    /\ Item(queue, arrivals[3]).priority = 7

\* ------------------------------------------------------------ C2
\* C2: an item whose generation has failed exactly twice is returned and
\* reset to pending by retry_failed, and one that has failed three times is
\* not returned.
C2_RetryCap ==
    [][RetryFailed =>
         \A i \in 1..Len(queue) :
            LET item == queue[i] IN
            /\ (item.status = "failed" /\ failures[item.id] = 2) =>
                  /\ item.id \in Range(RetryReturn(queue))
                  /\ Item(queue', item.id).status = "pending"
            /\ (item.status = "failed" /\ failures[item.id] = 3) =>
                  item.id \notin Range(RetryReturn(queue))]_vars

\* ------------------------------------------------------------ C3
\* The four statuses of the item state machine.
Statuses == {"pending", "processing", "completed", "failed"}

LegalEdge(from, to) ==
    \/ from = "pending" /\ to = "processing"
    \/ from = "processing" /\ to \in {"completed", "failed"}
    \/ from = "failed" /\ to = "pending"

\* The same item before and after a step: the same queue id enqueued at the
\* same time (an add_post that reuses a queue id stores a new item).
SameItem(a, b) == a.id = b.id /\ a.added_at = b.added_at

\* C3: every change of an item's status follows pending -> processing,
\* processing -> completed, processing -> failed or failed -> pending, the
\* last only with attempts < 3, and the status is always one of the four.
C3_StatusEdges ==
    [][/\ \A i \in 1..Len(queue) : queue[i].status \in Statuses
       /\ \A i \in 1..Len(queue') : queue'[i].status \in Statuses
       /\ \A i \in 1..Len(queue), j \in 1..Len(queue') :
             (SameItem(queue[i], queue'[j]) /\ queue[i].status # queue'[j].status) =>
                /\ LegalEdge(queue[i].status, queue'[j].status)
                /\ queue[i].status = "failed" => queue[i].attempts < 3]_vars

\* An item that failed, was reset by retry_failed and has failed again.
C3_Witness ==
    \E i \in 1..Len(queue) :
       queue[i].status = "failed" /\ failures[queue[i].id] = 2

\* ------------------------------------------------------------ C4
\* C4: update_status with a target that is no legal successor of the item's
\* status leaves the item as it was.
C4_IllegalIsNoOp ==
    [][\A k \in Keys(queue), status \in QueueStatus,
          result \in {NoResult, SomeResult}, error \in {None, "boom"} :
          (UpdateStatusCall(k, status, result, error)
              /\ ~LegalEdge(Item(queue, k).status, status))
          => Item(queue', k) = Item(queue, k)]_vars

\* ------------------------------------------------------------ C5
\* The outcome of the generation the step ProcessGenerate(env) makes.
GenerationOutcome(env) ==
    generate_from_post(audio_generator[1], metadata_file, audio_files,
                       Item(queue, pending_items[cur]).post_data, FALSE, env, now)

\* C5: when generate_from_post raises for an item, the item ends failed with
\* the exception's message as its error and process_queue goes on; when the
\* call returns, every item of the batch is completed or failed.
C5_ExceptionRecorded ==
    [][/\ \A env \in Envs("gtts") :
             (ProcessGenerate(env) /\ GenerationOutcome(env).raised) =>
                /\ Item(queue', pending_items[cur]).status = "failed"
                /\ Item(queue', pending_items[cur]).error = env.msg
                /\ pc' \in {"claim", "return"}
       /\ pc' = "return" =>
             /\ attempted' = pending_items'
             /\ \A i \in 1..Len(pending_items') :
                   Item(queue', pending_items'[i]).status \in {"completed", "failed"}]_vars

\* ------------------------------------------------------------ C6
\* C6: after a crash during a batch and the reload of the snapshot file, every
\* item whose outcome had been recorded has the same status, result and error.
C6_OutcomesSurviveCrash ==
    [][(Crash \/ CrashInSave) =>
         \A i \in 1..Len(queue) :
            queue[i].status \in {"completed", "failed"} =>
               /\ queue[i].id \in Keys(queue')
               /\ Item(queue', queue[i].id).status = queue[i].status
               /\ Item(queue', queue[i].id).result = queue[i].result
               /\ Item(queue', queue[i].id).error = queue[i].error]_vars

\* ------------------------------------------------------------ C7
\* C7: process_queue hands an item to generation only out of pending status:
\* the item it is about to mark is pending, the one it is generating for is
\* processing, the ones still to come are pending, and none is listed twice.
C7_ClaimedOnlyWhenPending ==
    pc \in {"claim", "generate"} =>
       /\ \A i, j \in 1..Len(pending_items) :
             pending_items[i] = pending_items[j] => i = j
       /\ \A i \in cur..Len(pending_items) : pending_items[i] \in Keys(queue)
       /\ pc = "claim" => Item(queue, pending_items[cur]).status = "pending"
       /\ pc = "generate" => Item(queue, pending_items[cur]).status = "processing"
       /\ \A i \in (cur + 1)..Len(pending_items) :
             Item(queue, pending_items[i]).status = "pending"

\* An item is handed to generation a second time, after retry_failed reset it,
\* while another item of the queue is completed and is not selected.
C7_Witness ==
    /\ pc = "generate"
    /\ failures[pending_items[cur]] = 1
    /\ \E i \in 1..Len(queue) : queue[i].status = "completed"

\* ------------------------------------------------------------ C8, C9, C10
\* The last generate_from_post call, by what it was given.
Called == last.op = "generate_from_post"

\* The store held a record for the post and that record's audio file existed,
\* and the caller did not force a regeneration.
CallHadStoredAudio ==
    /\ ~last.force_regenerate
    /\ last.post.id \in DOMAIN last.metadata_before
    /\ last.metadata_before[last.post.id].file_path \in last.audio_before

\* The call got as far as the safety verdict.
CallReachedVerdict == ~CallHadStoredAudio /\ last.env.pipeline = "ok"

VerdictSafe == is_safe_for_tts(filter_post(process_post(last.post)))

StoreUntouched ==
    /\ last.out.metadata = last.metadata_before
    /\ metadata_file = last.file_before

\* C8: with a stored record whose audio file exists and no forced
\* regeneration, generate_from_post returns that record, does not call the
\* engine and leaves the store as it was, so that a repeated call finds the
\* same record.
C8_StoredRecordReturned ==
    (Called /\ CallHadStoredAudio) =>
       /\ ~last.out.raised
       /\ last.out.result = last.metadata_before[last.post.id]
       /\ ~last.out.engine_called
       /\ StoreUntouched
       /\ LoadMetadata(metadata_file)[last.post.id] = last.out.result

\* The stored record was returned although the engine would have failed.
C8_Witness ==
    /\ Called
    /\ CallHadStoredAudio
    /\ last.env.engine = "fail"
    /\ last.out.result.success

\* C9: with an unsafe verdict generate_from_post returns a failure with the
\* filtered reason, never calls the engine and leaves the store as it was.
C9_UnsafeNotSynthesized ==
    (Called /\ CallReachedVerdict /\ ~VerdictSafe) =>
       /\ ~last.out.raised
       /\ ~last.out.result.success
       /\ last.out.result.reason = "Content filtered as unsafe"
       /\ ~last.out.engine_called
       /\ StoreUntouched

\* An unsafe post was refused while the store held another post's record.
C9_Witness ==
    /\ Called
    /\ CallReachedVerdict
    /\ ~VerdictSafe
    /\ last.metadata_before # <<>>
    /\ ~last.out.result.success

\* C10: when the engine fails, by a failure result or by raising,
\* generate_from_post returns success false with the engine's error and
\* writes nothing to the store; the store changes only after an engine
\* success.
C10_EngineFailureNotStored ==
    /\ (Called /\ CallReachedVerdict /\ VerdictSafe
           /\ last.env.engine \in {"fail", "raise"}) =>
          /\ ~last.out.raised
          /\ ~last.out.result.success
          /\ last.out.result.error = last.env.msg
          /\ StoreUntouched
    /\ (Called /\ ~StoreUntouched) =>
          /\ CallReachedVerdict
          /\ VerdictSafe
          /\ last.env.engine = "ok"
          /\ last.out.result.success

\* The engine raised while the store held a record; the record is still there.
C10_Witness ==
    /\ Called
    /\ CallReachedVerdict
    /\ VerdictSafe
    /\ last.env.engine = "raise"
    /\ last.metadata_before # <<>>
    /\ ~last.out.result.success

\* ------------------------------------------------------------ C11
\* C11: every queue item whose status is failed carries a non-null error
\* message, whatever made its generation fail (an engine failure result, a
\* raised exception or an unsafe verdict).
C11_FailedHasError ==
    \A i \in 1..Len(queue) :
       queue[i].status = "failed" => queue[i].error # None

\* ------------------------------------------------------------ admission
\* Optional[int]: <<>> is None, <<n>> the integer n.
IsSet(x) == x # <<>>

\* Python truthiness of an Optional[int]: None and 0 are both false.
IntTruthy(x) == x # <<>> /\ x[1] # 0

MEANINGFUL_TEXT_THRESHOLD == 50

\* The keyword arguments of PostFilterConfig(...), an argument left out
\* being at its default.
ConfigArgs(u, lo, hi, n, d, i, l) ==
    [min_upvotes |-> u, min_char_count |-> lo, max_char_count |-> hi,
     exclude_nsfw |-> n, exclude_deleted_removed |-> d,
     exclude_image_only |-> i, exclude_link_only |-> l]

\* A constructor that corrects a maximum below the minimum instead of failing.
PostFilterConfigCorrecting(args) ==
    [ok |-> TRUE,
     config |-> [args EXCEPT !.max_char_count =
                    IF IsSet(args.min_char_count) /\ IsSet(@)
                          /\ @[1] < args.min_char_count[1]
                    THEN args.min_char_count ELSE @]]

\* PostFilterConfig(...): the dataclass fields, then __post_init__. ok = FALSE
\* is a ValueError raised from the constructor: the caller gets no object.
PostFilterConfig(args) ==
    IF IsSet(args.min_char_count) /\ IsSet(args.max_char_count)
          /\ args.max_char_count[1] < args.min_char_count[1]
    THEN [ok |-> FALSE, error |-> "max_char_count must be >= min_char_count"]
    ELSE IF IsSet(args.min_upvotes) /\ args.min_upvotes[1] < 0
    THEN [ok |-> FALSE, error |-> "min_upvotes must be >= 0"]
    ELSE IF IsSet(args.min_char_count) /\ args.min_char_count[1] < 0
    THEN [ok |-> FALSE, error |-> "min_char_count must be >= 0"]
    ELSE IF IsSet(args.max_char_count) /\ args.max_char_count[1] < 1
    THEN [ok |-> FALSE, error |-> "max_char_count must be >= 1"]
    ELSE [ok |-> TRUE, config |-> args]

\* The arguments a caller may pass, valid and not.
UpvoteArgs == {<<>>, <<-1>>, <<0>>, <<5>>}
MinCharArgs == {<<>>, <<-1>>, <<0>>, <<50>>, <<100>>}
MaxCharArgs == {<<>>, <<0>>, <<50>>, <<100>>}

\* PostFilterConfig(): every field at its default.
DefaultConfig ==
    PostFilterConfig(ConfigArgs(<<>>, <<>>, <<>>, FALSE, TRUE, FALSE, FALSE)).config

\* The configurations the filter is run with: constructed ones.
Configs ==
    {PostFilterConfig(ConfigArgs(u, lo, hi, n, d, i, l)).config :
        u \in {<<>>, <<5>>}, lo \in {<<>>, <<0>>, <<50>>}, hi \in {<<>>, <<100>>},
        n \in BOOLEAN, d \in BOOLEAN, i \in BOOLEAN, l \in BOOLEAN}

\* A fetched post, by what the admission filter reads: the score, the over_18
\* flag, whether title, selftext or author carry a [deleted]/[removed] marker,
\* is_self, is_video, and the lengths of title, selftext and stripped selftext.
FetchedPosts ==
    [score : {0, 10}, over_18 : BOOLEAN, deleted : BOOLEAN, is_self : BOOLEAN,
     is_video : BOOLEAN, title_len : {10}, selftext_len : {0, 60, 200},
     selftext_stripped : {0}]
    \cup
    [score : {0, 10}, over_18 : BOOLEAN, deleted : BOOLEAN, is_self : BOOLEAN,
     is_video : BOOLEAN, title_len : {10}, selftext_len : {60}, selftext_stripped : {60}]

\* RedditClient._get_post_text_length
get_post_text_length(post) == post.title_len + post.selftext_len

\* RedditClient._has_meaningful_text
has_meaningful_text(post, threshold) == post.selftext_stripped >= threshold

\* RedditClient._is_deleted_or_removed
is_deleted_or_removed(post) == post.deleted

\* _should_include_post, lines 163-189: the checks that need the text length.
ExpensiveChecks(post, filter_config) ==
    IF ~(\/ IntTruthy(filter_config.min_char_count)
         \/ IntTruthy(filter_config.max_char_count)
         \/ filter_config.exclude_image_only
         \/ filter_config.exclude_link_only)
    THEN <<TRUE, None>>
    ELSE IF IsSet(filter_config.min_char_count)
            /\ get_post_text_length(post) < filter_config.min_char_count[1]
    THEN <<FALSE, "min_char_count">>
    ELSE IF IsSet(filter_config.max_char_count)
            /\ get_post_text_length(post) > filter_config.max_char_count[1]
    THEN <<FALSE, "max_char_count">>
    ELSE IF filter_config.exclude_image_only /\ ~post.is_self /\ ~post.is_video
            /\ ~has_meaningful_text(post, MEANINGFUL_TEXT_THRESHOLD)
    THEN <<FALSE, "image_only">>
    ELSE IF filter_config.exclude_link_only /\ ~post.is_self
            /\ ~has_meaningful_text(post, MEANINGFUL_TEXT_THRESHOLD)
    THEN <<FALSE, "link_only">>
    ELSE <<TRUE, None>>

\* A filter that tests the over_18 flag before the score.
should_include_post_nsfw_first(post, filter_config) ==
    IF filter_config.exclude_nsfw /\ post.over_18
    THEN <<FALSE, "nsfw">>
    ELSE IF IsSet(filter_config.min_upvotes)
            /\ post.score < filter_config.min_upvotes[1]
    THEN <<FALSE, "min_upvotes">>
    ELSE IF filter_config.exclude_deleted_removed /\ is_deleted_or_removed(post)
    THEN <<FALSE, "deleted_removed">>
    ELSE ExpensiveChecks(post, filter_config)

\* A filter that gives no reason when it rejects for the over_18 flag.
should_include_post_no_reason(post, filter_config) ==
    IF IsSet(filter_config.min_upvotes)
          /\ post.score < filter_config.min_upvotes[1]
    THEN <<FALSE, "min_upvotes">>
    ELSE IF filter_config.exclude_nsfw /\ post.over_18
    THEN <<FALSE, None>>
    ELSE IF filter_config.exclude_deleted_removed /\ is_deleted_or_removed(post)
    THEN <<FALSE, "deleted_removed">>
    ELSE ExpensiveChecks(post, filter_config)

\* RedditClient._should_include_post: (should_include, reason_excluded).
should_include_post(post, filter_config) ==
    IF IsSet(filter_config.min_upvotes)
          /\ post.score < filter_config.min_upvotes[1]
    THEN <<FALSE, "min_upvotes">>
    ELSE IF filter_config.exclude_nsfw /\ post.over_18
    THEN <<FALSE, "nsfw">>
    ELSE IF filter_config.exclude_deleted_removed /\ is_deleted_or_removed(post)
    THEN <<FALSE, "deleted_removed">>
    ELSE ExpensiveChecks(post, filter_config)

\* filter_reasons.get(reason, 0)
CountOf(filter_reasons, reason) ==
    IF reason \in DOMAIN filter_reasons THEN filter_reasons[reason] ELSE 0

\* fetch_subreddit_posts, lines 272-280: the loop over the fetched posts.
RECURSIVE FilterPosts(_, _)
FilterPosts(posts, filter_config) ==
    IF posts = <<>> THEN [filtered_posts |-> <<>>, filter_reasons |-> <<>>]
    ELSE LET before == FilterPosts(SubSeq(posts, 1, Len(posts) - 1), filter_config)
             post == posts[Len(posts)]
             verdict == should_include_post(post, filter_config)
         IN  IF verdict[1]
             THEN [before EXCEPT !.filtered_posts = Append(@, post)]
             ELSE IF Truthy(verdict[2])
             THEN [before EXCEPT !.filter_reasons =
                      Put(@, verdict[2], CountOf(@, verdict[2]) + 1)]
             ELSE before

\* fetch_subreddit_posts with a filter configuration, for the posts the
\* subreddit listing gave: what it returns (lines 293-306).
fetch_subreddit_posts(posts, filter_config) ==
    LET kept == FilterPosts(posts, filter_config)
    IN  [posts |-> kept.filtered_posts,
         metadata |-> [total_fetched |-> Len(posts),
                       total_passed_filters |-> Len(kept.filtered_posts),
                       filter_reasons |-> kept.filter_reasons,
                       message |-> IF Len(kept.filtered_posts) = 0 /\ Len(posts) > 0
                                   THEN "No posts passed the specified filters"
                                   ELSE None]]

\* The posts of a subreddit listing: one that passes every filter, one with a
\* low score and the over_18 flag, one deleted, one image, one video link and
\* one long text.
OrdinaryPost ==
    [score |-> 10, over_18 |-> FALSE, deleted |-> FALSE, is_self |-> TRUE,
     is_video |-> FALSE, title_len |-> 10, selftext_len |-> 60, selftext_stripped |-> 60]

ListedPosts ==
    {OrdinaryPost,
     [OrdinaryPost EXCEPT !.score = 0, !.over_18 = TRUE],
     [OrdinaryPost EXCEPT !.deleted = TRUE],
     [OrdinaryPost EXCEPT !.is_self = FALSE, !.selftext_len = 0, !.selftext_stripped = 0],
     [OrdinaryPost EXCEPT !.is_self = FALSE, !.is_video = TRUE, !.selftext_len = 0,
                          !.selftext_stripped = 0],
     [OrdinaryPost EXCEPT !.selftext_len = 200, !.selftext_stripped = 0]}

Listings == UNION {[1..n -> ListedPosts] : n \in 0..MaxListed}

\* The variables no call to the reddit service touches.
queue_vars == <<now, queue, queue_file, audio_generator, metadata_file, audio_files,
                pc, pending_items, cur, stats, arrivals, attempted, failures,
                adds, direct>>

\* A call of PostFilterConfig(...).
ConstructCall(args) ==
    /\ last.op = "none"
    /\ last' = [op |-> "PostFilterConfig", args |-> args, out |-> PostFilterConfig(args)]
    /\ UNCHANGED queue_vars

\* A call of _should_include_post.
ShouldIncludeCall(post, filter_config) ==
    /\ last.op = "none"
    /\ last' = [op |-> "_should_include_post", post |-> post,
                filter_config |-> filter_config,
                out |-> should_include_post(post, filter_config)]
    /\ UNCHANGED queue_vars

\* A call of fetch_subreddit_posts with a filter configuration, the listing
\* giving `posts`.
FetchCall(posts, filter_config) ==
    /\ last.op = "none"
    /\ last' = [op |-> "fetch_subreddit_posts", posts |-> posts,
                filter_config |-> filter_config,
                out |-> fetch_subreddit_posts(posts, filter_config)]
    /\ UNCHANGED queue_vars

\* The caller is done with the result of the call.
CallReturns ==
    /\ last.op # "none"
    /\ last' = [op |-> "none"]
    /\ UNCHANGED queue_vars

\* No call is under way.
NoCall == last.op = "none"

AdmitNext ==
    \/ /\ NoCall
       /\ \E u \in UpvoteArgs, lo \in MinCharArgs, hi \in MaxCharArgs,
             n \in BOOLEAN, d \in BOOLEAN, i \in BOOLEAN, l \in BOOLEAN :
             ConstructCall(ConfigArgs(u, lo, hi, n, d, i, l))
    \/ /\ NoCall
       /\ \E post \in FetchedPosts, filter_config \in Configs :
             ShouldIncludeCall(post, filter_config)
    \/ /\ NoCall
       /\ \E posts \in Listings, filter_config \in Configs :
             FetchCall(posts, filter_config)
    \/ CallReturns

SpecAdmit == Init /\ [][AdmitNext]_vars

\* ------------------------------------------------------------ C12
RECURSIVE SumOver(_, _)
SumOver(f, S) ==
    IF S = {} THEN 0
    ELSE LET k == CHOOSE x \in S : TRUE IN f[k] + SumOver(f, S \ {k})

\* The sum of the counts of a histogram.
SumCounts(f) == SumOver(f, DOMAIN f)

Fetched == last.op = "fetch_subreddit_posts"

\* C12: for every list of fetched posts and every filter configuration, the
\* number of accepted posts plus the sum of the filter_reasons counts is the
\* number of input posts, which is total_fetched, and total_passed_filters is
\* the number of accepted posts.
C12_HistogramComplete ==
    Fetched =>
       /\ Len(last.out.posts) + SumCounts(last.out.metadata.filter_reasons)
             = Len(last.posts)
       /\ last.out.metadata.total_fetched = Len(last.posts)
       /\ last.out.metadata.total_passed_filters = Len(last.out.posts)

\* Three posts fetched: one accepted, two rejected for different reasons.
C12_Witness ==
    /\ Fetched
    /\ Len(last.posts) = 3
    /\ Len(last.out.posts) = 1
    /\ Cardinality(DOMAIN last.out.metadata.filter_reasons) = 2

\* ------------------------------------------------------------ C13
\* The predicates in their fixed order: score, adult flag, deleted/removed,
\* minimum length, maximum length, image-only, link-only.
PredicateOrder ==
    <<"min_upvotes", "nsfw", "deleted_removed", "min_char_count",
      "max_char_count", "image_only", "link_only">>

\* Whether the post fails the i-th predicate under the configuration.
FailsPredicate(i, post, cfg) ==
    CASE i = 1 -> IsSet(cfg.min_upvotes) /\ post.score < cfg.min_upvotes[1]
      [] i = 2 -> cfg.exclude_nsfw /\ post.over_18
      [] i = 3 -> cfg.exclude_deleted_removed /\ post.deleted
      [] i = 4 -> IsSet(cfg.min_char_count)
                  /\ post.title_len + post.selftext_len < cfg.min_char_count[1]
      [] i = 5 -> IsSet(cfg.max_char_count)
                  /\ post.title_len + post.selftext_len > cfg.max_char_count[1]
      [] i = 6 -> cfg.exclude_image_only /\ ~post.is_self /\ ~post.is_video
                  /\ post.selftext_stripped < 50
      [] i = 7 -> cfg.exclude_link_only /\ ~post.is_self
                  /\ post.selftext_stripped < 50

Failing(post, cfg) == {i \in 1..7 : FailsPredicate(i, post, cfg)}

FirstOf(S) == CHOOSE i \in S : \A j \in S : i <= j

Evaluated == last.op = "_should_include_post"

\* C13: _should_include_post accepts a post exactly when it fails none of the
\* predicates, and for a rejected post gives one reason, that of the first
\* failing predicate in the fixed order.
C13_FirstFailingReason ==
    Evaluated =>
       LET failing == Failing(last.post, last.filter_config) IN
       /\ last.out[1] = (failing = {})
       /\ failing = {} => last.out[2] = None
       /\ failing # {} => last.out[2] = PredicateOrder[FirstOf(failing)]

\* A post that fails the score and the adult-flag predicate is rejected for
\* its score.
C13_Witness ==
    /\ Evaluated
    /\ {1, 2} \subseteq Failing(last.post, last.filter_config)
    /\ last.out = <<FALSE, "min_upvotes">>

\* ------------------------------------------------------------ C14
\* C14: with a PostFilterConfig constructed with no arguments every input
\* post is accepted, posts with [deleted]/[removed] markers included, and the
\* reason histogram is empty.
C14_NoFilterAcceptsAll ==
    (Fetched /\ last.filter_config = DefaultConfig) =>
       /\ last.out.posts = last.posts
       /\ last.out.metadata.filter_reasons = <<>>

\* ------------------------------------------------------------ C15
Constructed == last.op = "PostFilterConfig"

BothLengthBounds == IsSet(last.args.min_char_count) /\ IsSet(last.args.max_char_count)

\* The object holds the values the caller gave.
StoredAsGiven == last.out.ok /\ last.out.config = last.args

\* C15 as stated: with both length bounds set, construction fails when
\* max_char_count < min_char_count and succeeds, storing the given values,
\* whenever max_char_count >= min_char_count.
C15_AsStated ==
    (Constructed /\ BothLengthBounds) =>
       IF last.args.max_char_count[1] < last.args.min_char_count[1]
       THEN ~last.out.ok
       ELSE StoredAsGiven

\* Every given bound is in its range of values: min_upvotes >= 0,
\* min_char_count >= 0, max_char_count >= 1.
BoundsInRange ==
    /\ IsSet(last.args.min_upvotes) => last.args.min_upvotes[1] >= 0
    /\ IsSet(last.args.min_char_count) => last.args.min_char_count[1] >= 0
    /\ IsSet(last.args.max_char_count) => last.args.max_char_count[1] >= 1

\* C15 (amended): with both length bounds set, construction fails when
\* max_char_count < min_char_count; with max_char_count >= min_char_count and
\* every given bound in its range it succeeds and stores the given values
\* unchanged.
C15_LengthBoundsValidated ==
    (Constructed /\ BothLengthBounds) =>
       /\ last.args.max_char_count[1] < last.args.min_char_count[1] => ~last.out.ok
       /\ (last.args.max_char_count[1] >= last.args.min_char_count[1] /\ BoundsInRange)
             => StoredAsGiven

\* Equal bounds were accepted and stored.
C15_Witness ==
    /\ Constructed
    /\ BothLengthBounds
    /\ last.args.max_char_count = last.args.min_char_count
    /\ StoredAsGiven

\* ------------------------------------------------------------ C16
\* C16: a post flagged adult, evaluated against a configuration that excludes
\* adult posts, is rejected with the reason adult_content, and is not among
\* the posts the fetch hands on, so that no later stage (the content safety
\* filter's filter_post included) is given it.
C16_AdultExcludedBeforeSafety ==
    /\ (Evaluated /\ last.filter_config.exclude_nsfw /\ last.post.over_18) =>
          last.out = <<FALSE, "adult_content">>
    /\ (Fetched /\ last.filter_config.exclude_nsfw) =>
          \A i \in 1..Len(last.out.posts) : ~last.out.posts[i].over_18

\* ------------------------------------------------------------ safety check
\* The texts the safety check is tried on: with and without a marker, 9, 10
\* and 40 characters after strip(), 0 to 31 profanity matches in 10 or 100
\* words; and the empty text.
SafetyTexts ==
    [marker : BOOLEAN, length : {9, 10, 40}, profanity_count : {0, 3, 4, 29, 30, 31},
     word_count : {10, 100}]
    \cup {EmptyText}

\* filter_post on a processed post; a post that carries should_skip is
\* returned before filter_stats is computed (filter_post, lines 91-94).
FilteredPost(text, should_skip) ==
    LET processed == [process_post([id |-> 1, tts_text |-> text])
                         EXCEPT !.should_skip = should_skip]
    IN  IF should_skip THEN processed ELSE filter_post(processed)

\* A call of is_safe_for_tts on the post filter_post returned.
SafetyCall(text, should_skip) ==
    /\ last.op = "none"
    /\ last' = [op |-> "is_safe_for_tts", text |-> text, should_skip |-> should_skip,
                out |-> is_safe_for_tts(FilteredPost(text, should_skip))]
    /\ UNCHANGED queue_vars

SafetyNext ==
    \/ /\ NoCall
       /\ \E text \in SafetyTexts, should_skip \in BOOLEAN : SafetyCall(text, should_skip)
    \/ CallReturns

SpecSafety == Init /\ [][SafetyNext]_vars

\* ------------------------------------------------------------ C17
SafetyChecked == last.op = "is_safe_for_tts"

\* Profanity count divided by word count is strictly greater than 0.30.
RatioAbove30Percent(text) ==
    text.word_count > 0 /\ 100 * text.profanity_count > 30 * text.word_count

\* C17: is_safe_for_tts returns false exactly when the skip flag is set, or
\* the text holds a [removed]/[deleted] marker, or the stripped text is shorter
\* than 10 characters, or profanity count / word count > 0.30; with none of
\* the first three, 29 and 30 matches in 100 words are safe and 31 are not.
C17_SafetyVerdict ==
    SafetyChecked =>
       /\ ~last.out <=>
             \/ last.should_skip
             \/ last.text.marker
             \/ last.text.length < 10
             \/ (~last.should_skip /\ RatioAbove30Percent(last.text))
       /\ (~last.should_skip /\ ~last.text.marker /\ last.text.length >= 10
              /\ last.text.word_count = 100) =>
             /\ last.text.profanity_count \in {29, 30} => last.out
             /\ last.text.profanity_count = 31 => ~last.out

\* A text of 100 words with exactly 30 matches was found safe.
C17_Witness ==
    /\ SafetyChecked
    /\ ~last.should_skip /\ ~last.text.marker /\ last.text.length >= 10
    /\ last.text.word_count = 100 /\ last.text.profanity_count = 30
    /\ last.out

\* ------------------------------------------------------------ the text stages
\* A text inside generate_from_post: the stages that have been applied to the
\* post's text, in order; <<>> is a local variable not assigned yet.
RawText == <<"post">>

\* The stages of the claim, in the order it gives.
StatedOrder ==
    <<"post", "process_post", "preprocess_for_tts", "strip_tags", "filter_post">>

\* A generate_from_post call that is about to run process_post (line 81).
PipelineStart(text) ==
    /\ last.op = "none"
    /\ last' = [op |-> "generate_from_post", line |-> 81, text |-> text,
                processed_post |-> <<>>, filtered_post |-> <<>>, tts_text |-> <<>>,
                filter_read |-> <<>>, safety_read |-> <<>>, engine_read |-> <<>>,
                safe |-> TRUE]
    /\ UNCHANGED queue_vars

InPipeline(line) == last.op = "generate_from_post" /\ last.line = line

\* Line 81: processed_post = text_processor.process_post(post).
ProcessStep ==
    /\ InPipeline(81)
    /\ last' = [last EXCEPT !.line = 84,
                            !.processed_post = Append(RawText, "process_post")]
    /\ UNCHANGED queue_vars

\* Line 84: filtered_post = content_filter.filter_post(processed_post).
FilterStep ==
    /\ InPipeline(84)
    /\ last' = [last EXCEPT !.line = 87,
                            !.filter_read = last.processed_post,
                            !.filtered_post = Append(last.processed_post, "filter_post")]
    /\ UNCHANGED queue_vars

\* Lines 87-90: tts_text = preprocess_for_tts(filtered_post['tts_text']).
PreprocessStep ==
    /\ InPipeline(87)
    /\ last' = [last EXCEPT !.line = 94,
                            !.tts_text = Append(last.filtered_post, "preprocess_for_tts")]
    /\ UNCHANGED queue_vars

\* Lines 94-95: tags and runs of white space are taken out of tts_text.
StripStep ==
    /\ InPipeline(94)
    /\ last' = [last EXCEPT !.line = 98,
                            !.tts_text = Append(last.tts_text, "strip_tags")]
    /\ UNCHANGED queue_vars

\* Lines 98-104: is_safe_for_tts(filtered_post); an unsafe verdict returns.
SafetyStep ==
    /\ InPipeline(98)
    /\ LET safe == is_safe_for_tts(FilteredPost(last.text, FALSE))
       IN  last' = [last EXCEPT !.line = IF safe THEN 112 ELSE 100,
                                !.safety_read = last.filtered_post,
                                !.safe = safe]
    /\ UNCHANGED queue_vars

\* Lines 112-117: engine.generate_audio(text=tts_text, ...).
EngineStep ==
    /\ InPipeline(112)
    /\ last' = [last EXCEPT !.line = 140, !.engine_read = last.tts_text]
    /\ UNCHANGED queue_vars

\* The return of line 100 or of line 140.
PipelineReturns ==
    /\ (InPipeline(100) \/ InPipeline(140))
    /\ last' = [op |-> "none"]
    /\ UNCHANGED queue_vars

PipelineNext ==
    \/ /\ NoCall
       /\ \E text \in SafetyTexts : PipelineStart(text)
    \/ ProcessStep
    \/ FilterStep
    \/ PreprocessStep
    \/ StripStep
    \/ SafetyStep
    \/ EngineStep
    \/ PipelineReturns

SpecPipeline == Init /\ [][PipelineNext]_vars

\* ------------------------------------------------------------ C18
ExpandedAndStripped(text) == {"preprocess_for_tts", "strip_tags"} \subseteq Range(text)

FilterRan == last.op = "generate_from_post" /\ last.filter_read # <<>>
SafetyRan == last.op = "generate_from_post" /\ last.safety_read # <<>>
EngineRan == last.op = "generate_from_post" /\ last.engine_read # <<>>

\* C18: in generate_from_post the text that filter_post redacts and the text
\* is_safe_for_tts judges have both been through the numeric expansion and the
\* stripping of markup, and the text the engine is given has been through
\* process_post, the expansion, the stripping and the safety filter, in that
\* order.
C18_SafetyAfterExpansion ==
    /\ FilterRan => ExpandedAndStripped(last.filter_read)
    /\ SafetyRan => ExpandedAndStripped(last.safety_read)
    /\ EngineRan => last.engine_read = StatedOrder

\* ------------------------------------------------------------ texts and patterns
\* A text is a sequence of characters, each a one-character string; a code
\* point that a TLA+ string cannot hold is written by its name ("U+200B").
Tuple(f) == <<>> \o f
Str(s) == Tuple([i \in 1..Len(s) |-> SubSeq(s, i, i)])

Digit == Range(Str("0123456789"))
LowerLetters == Str("abcdefghijklmnopqrstuvwxyz")
UpperLetters == Str("ABCDEFGHIJKLMNOPQRSTUVWXYZ")
WordChar == Digit \cup Range(LowerLetters) \cup Range(UpperLetters) \cup {"_"}
White == {" ", "\n", "\t", "\r", "\f"}

\* str.lower() and str.upper(), on one character and on a text.
lower(c) ==
    IF c \in Range(UpperLetters)
    THEN LowerLetters[CHOOSE i \in 1..26 : UpperLetters[i] = c] ELSE c
upper(c) ==
    IF c \in Range(LowerLetters)
    THEN UpperLetters[CHOOSE i \in 1..26 : LowerLetters[i] = c] ELSE c
LowerText(text) == Tuple([i \in 1..Len(text) |-> lower(text[i])])

\* The pattern syntax of re: literal text, a character class, a negated
\* class, a sequence, an alternation, a greedy repetition, a capturing group,
\* the anchors ^, $ and \b, and the negative lookbehind for one character.
LitSeq(chars) == [t |-> "lit", chars |-> chars, ic |-> FALSE]
Lit(str) == LitSeq(Str(str))
In(set) == [t |-> "in", set |-> set]
NotIn(set) == [t |-> "not", set |-> set]
Cat(parts) == [t |-> "cat", parts |-> parts]
Alt(parts) == [t |-> "alt", parts |-> parts]
Rep(r, min, max) == [t |-> "rep", of |-> r, min |-> min, max |-> max]
Grp(n, r) == [t |-> "grp", n |-> n, of |-> r]
At(anchor) == [t |-> anchor]
NotBehind(set) == [t |-> "notbehind", set |-> set]
Plus(r) == Rep(r, 1, Unbounded)
Star(r) == Rep(r, 0, Unbounded)
Opt(r) == Rep(r, 0, 1)

BothCases(set) == set \cup {lower(c) : c \in set} \cup {upper(c) : c \in set}

\* A pattern compiled with re.IGNORECASE.
RECURSIVE IgnoreCase(_)
IgnoreCase(r) ==
    CASE r.t = "lit" -> [r EXCEPT !.chars = LowerText(r.chars), !.ic = TRUE]
      [] r.t \in {"in", "not", "notbehind"} -> [r EXCEPT !.set = BothCases(r.set)]
      [] r.t \in {"cat", "alt"} ->
            [r EXCEPT !.parts = Tuple([i \in 1..Len(r.parts) |-> IgnoreCase(r.parts[i])])]
      [] r.t \in {"rep", "grp"} -> [r EXCEPT !.of = IgnoreCase(r.of)]
      [] OTHER -> r

NoGroups == [k \in 0..3 |-> <<0, 0>>]

IsWordAt(s, i) == i >= 1 /\ i <= Len(s) /\ s[i] \in WordChar

\* Whether the class r holds the character c.
Accepts(r, c) == IF r.t = "in" THEN c \in r.set ELSE c \notin r.set

\* How many characters of s from position i on are in the class r, up to max.
Run(r, s, i, max) ==
    Cardinality({k \in 1..Min(max, Len(s) - i + 1) :
                    \A j \in i..(i + k - 1) : Accepts(r, s[j])})

\* The matches of pattern r in text s that start at position i, in the order
\* in which the backtracking matcher of re finds them: each is the position
\* after the match and the spans of the groups.
RECURSIVE Match(_, _, _, _)
RECURSIVE MatchEach(_, _, _)
Match(r, s, i, g) ==
    LET here == <<[pos |-> i, g |-> g]>>
    IN  CASE r.t = "lit" ->
                LET found == SubSeq(s, i, i + Len(r.chars) - 1)
                IN  IF i + Len(r.chars) - 1 <= Len(s)
                       /\ r.chars = (IF r.ic THEN LowerText(found) ELSE found)
                    THEN <<[pos |-> i + Len(r.chars), g |-> g]>> ELSE <<>>
          [] r.t \in {"in", "not"} ->
                IF i <= Len(s) /\ Accepts(r, s[i])
                THEN <<[pos |-> i + 1, g |-> g]>> ELSE <<>>
          [] r.t = "cat" ->
                IF r.parts = <<>> THEN here
                ELSE IF Len(r.parts) = 1 THEN Match(r.parts[1], s, i, g)
                ELSE MatchEach(Match(Head(r.parts), s, i, g), Cat(Tail(r.parts)), s)
          [] r.t = "alt" ->
                IF r.parts = <<>> THEN <<>>
                ELSE Match(Head(r.parts), s, i, g) \o Match(Alt(Tail(r.parts)), s, i, g)
          [] r.t = "rep" /\ r.of.t \in {"in", "not"} ->
                LET run == Run(r.of, s, i, r.max)
                IN  IF run < r.min THEN <<>>
                    ELSE Tuple([k \in 1..(run - r.min + 1) |->
                                  [pos |-> i + run - k + 1, g |-> g]])
          [] r.t = "rep" /\ r.of.t \notin {"in", "not"} ->
                (IF r.max = 0 THEN <<>>
                 ELSE MatchEach(SelectSeq(Match(r.of, s, i, g), LAMBDA m : m.pos > i),
                                Rep(r.of, Max(0, r.min - 1), r.max - 1), s))
                \o (IF r.min = 0 THEN here ELSE <<>>)
          [] r.t = "grp" ->
                LET inner == Match(r.of, s, i, g)
                IN  Tuple([k \in 1..Len(inner) |->
                              [pos |-> inner[k].pos,
                               g |-> [inner[k].g EXCEPT ![r.n] = <<i, inner[k].pos>>]]])
          [] r.t = "bol" -> IF i = 1 THEN here ELSE <<>>
          [] r.t = "eol" ->
                IF i = Len(s) + 1 \/ (i = Len(s) /\ s[i] = "\n") THEN here ELSE <<>>
          [] r.t = "wb" -> IF IsWordAt(s, i - 1) # IsWordAt(s, i) THEN here ELSE <<>>
          [] r.t = "notbehind" ->
                IF i > 1 /\ s[i - 1] \in r.set THEN <<>> ELSE here

\* The matches of r that start where one of the matches ms ended.
MatchEach(ms, r, s) ==
    IF ms = <<>> THEN <<>>
    ELSE IF Len(ms) = 1 THEN Match(r, s, ms[1].pos, ms[1].g)
    ELSE LET half == Len(ms) \div 2
         IN  MatchEach(SubSeq(ms, 1, half), r, s)
             \o MatchEach(SubSeq(ms, half + 1, Len(ms)), r, s)

\* match.group(k)
Group(s, g, k) == SubSeq(s, g[k][1], g[k][2] - 1)

RECURSIVE Join(_, _)
Join(texts, sep) ==
    IF texts = <<>> THEN <<>>
    ELSE IF Len(texts) = 1 THEN texts[1]
    ELSE texts[1] \o sep \o Join(Tail(texts), sep)

\* ------------------------------------------------------------ the numeric expander
\* TTSPreprocessor.number_patterns: the five patterns _expand_numbers uses.
number_patterns ==
    [currency |->
        Cat(<<Lit("$"),
              Grp(1, Cat(<<Plus(In(Digit)),
                           Opt(Cat(<<Lit("."), Rep(In(Digit), 2, 2)>>))>>))>>),
     percentage |->
        Cat(<<Grp(1, Cat(<<Plus(In(Digit)),
                           Opt(Cat(<<Lit("."), Plus(In(Digit))>>))>>)),
              Lit("%")>>),
     time_12hr |->
        Cat(<<Grp(1, Rep(In(Digit), 1, 2)), Lit(":"), Grp(2, Rep(In(Digit), 2, 2)),
              Star(In(White)),
              Grp(3, Alt(<<Lit("am"), Lit("pm"), Lit("AM"), Lit("PM")>>))>>),
     large_number |->
        Grp(1, Cat(<<Rep(In(Digit), 1, 3),
                     Plus(Cat(<<Lit(","), Rep(In(Digit), 3, 3)>>))>>)),
     ordinal |->
        Cat(<<Grp(1, Plus(In(Digit))),
              Grp(2, Alt(<<Lit("st"), Lit("nd"), Lit("rd"), Lit("th")>>)),
              At("wb")>>)]

\* int() of a run of digits, and str() of a natural number.
RECURSIVE ToInt(_)
ToInt(digits) ==
    IF digits = <<>> THEN 0
    ELSE 10 * ToInt(SubSeq(digits, 1, Len(digits) - 1))
         + (CHOOSE n \in 0..9 : Str("0123456789")[n + 1] = digits[Len(digits)])

RECURSIVE IntStr(_)
IntStr(n) ==
    IF n < 10 THEN <<Str("0123456789")[n + 1]>>
    ELSE IntStr(n \div 10) \o <<Str("0123456789")[(n % 10) + 1]>>

RECURSIVE StripZeros(_)
StripZeros(digits) ==
    IF digits # <<>> /\ digits[Len(digits)] = "0"
    THEN StripZeros(SubSeq(digits, 1, Len(digits) - 1)) ELSE digits

\* ' '.join(text): the characters of a text with a space between them.
Spaced(text) == Join(Tuple([i \in 1..Len(text) |-> <<text[i]>>]), <<" ">>)

\* TTSPreprocessor._number_to_words on digits with an optional fraction.
\* float() of such a string never raises; str() of the float is the integer
\* part, a point and the fraction without its trailing zeros (the numbers
\* tried have fewer than sixteen digits and no fraction below 0.0001).
number_to_words(num_str) ==
    LET point == IF "." \in Range(num_str)
                 THEN CHOOSE i \in 1..Len(num_str) : num_str[i] = "."
                 ELSE Len(num_str) + 1
        whole == ToInt(SubSeq(num_str, 1, point - 1))
        fraction == StripZeros(SubSeq(num_str, point + 1, Len(num_str)))
        str == IF fraction = <<>> THEN IntStr(whole)
               ELSE IntStr(whole) \o <<".">> \o fraction
    IN  IF fraction = <<>> /\ whole = 0 THEN Str("zero")
        ELSE IF fraction = <<>> /\ whole = 1 THEN Str("one")
        ELSE IF fraction = <<>> /\ whole = 2 THEN Str("two")
        ELSE IF whole < 100 THEN str
        ELSE Spaced(str)

\* The ordinals dict of _ordinal_to_words.
ordinals ==
    <<<<"1st", "first">>, <<"2nd", "second">>, <<"3rd", "third">>,
      <<"4th", "fourth">>, <<"5th", "fifth">>, <<"6th", "sixth">>,
      <<"7th", "seventh">>, <<"8th", "eighth">>, <<"9th", "ninth">>,
      <<"10th", "tenth">>, <<"11th", "eleventh">>, <<"12th", "twelfth">>>>

\* TTSPreprocessor._ordinal_to_words
ordinal_to_words(num, suffix) ==
    LET key == num \o suffix
        known == {k \in 1..Len(ordinals) : Str(ordinals[k][1]) = key}
    IN  IF known # {} THEN Str(ordinals[CHOOSE k \in known : TRUE][2])
        ELSE IF suffix = Str("st") THEN num \o Str(" first")
        ELSE IF suffix = Str("nd") THEN num \o Str(" second")
        ELSE IF suffix = Str("rd") THEN num \o Str(" third")
        ELSE num \o <<" ">> \o suffix

\* expand_time_12hr of _expand_numbers.
expand_time_12hr(hour_str, minute, period_str) ==
    LET hour == IntStr(ToInt(hour_str))
        period == Tuple([i \in 1..Len(period_str) |-> lower(period_str[i])])
    IN  IF minute = Str("00") THEN number_to_words(hour) \o <<" ">> \o period
        ELSE number_to_words(hour) \o <<" ">> \o number_to_words(minute)
             \o <<" ">> \o period

\* A replacement template: literal text and references to groups.
Text(str) == [ref |-> 0, text |-> Str(str)]
Ref(k) == [ref |-> k, text |-> <<>>]
Template(parts) == [kind |-> "template", parts |-> parts]
Function(name) == [kind |-> name, parts |-> <<>>]

\* What re.sub puts in the place of a match: the template with its group
\* references filled in, or the result of the replacement function.
Replacement(repl, s, g) ==
    CASE repl.kind = "template" ->
            Join(Tuple([k \in 1..Len(repl.parts) |->
                           IF repl.parts[k].ref > 0 THEN Group(s, g, repl.parts[k].ref)
                           ELSE repl.parts[k].text]), <<>>)
      [] repl.kind = "currency" -> number_to_words(Group(s, g, 1)) \o Str(" dollars")
      [] repl.kind = "percentage" -> number_to_words(Group(s, g, 1)) \o Str(" percent")
      [] repl.kind = "time_12hr" ->
            expand_time_12hr(Group(s, g, 1), Group(s, g, 2), Group(s, g, 3))
      [] repl.kind = "ordinal" -> ordinal_to_words(Group(s, g, 1), Group(s, g, 2))
      [] repl.kind = "large_number" ->
            number_to_words(SelectSeq(Group(s, g, 0), LAMBDA c : c # ","))
      [] repl.kind = "age_gender" ->
            Group(s, g, 1) \o Str(" year old ")
            \o (IF upper(Group(s, g, 2)[1]) = "M" THEN Str("male") ELSE Str("female"))

\* re.sub(r, repl, s) from position i on: the leftmost match is replaced and
\* the search goes on after it. No pattern of the program matches the empty
\* text.
RECURSIVE re_sub_from(_, _, _, _)
re_sub_from(r, repl, s, i) ==
    LET starts == {j \in i..Len(s) : Match(r, s, j, NoGroups) # <<>>}
    IN  IF starts = {} THEN SubSeq(s, i, Len(s))
        ELSE LET j == CHOOSE j \in starts : \A k \in starts : j <= k
                 m == Match(r, s, j, NoGroups)[1]
             IN  SubSeq(s, i, j - 1)
                 \o Replacement(repl, s, [m.g EXCEPT ![0] = <<j, m.pos>>])
                 \o re_sub_from(r, repl, s, m.pos)

re_sub(r, repl, s) == IF s = <<>> THEN <<>> ELSE re_sub_from(r, repl, s, 1)

\* TTSPreprocessor._expand_numbers
expand_numbers(text) ==
    LET currency == re_sub(number_patterns.currency, Function("currency"), text)
        percentage == re_sub(number_patterns.percentage, Function("percentage"), currency)
        time == re_sub(number_patterns.time_12hr, Function("time_12hr"), percentage)
        ordinal == re_sub(number_patterns.ordinal, Function("ordinal"), time)
    IN  re_sub(number_patterns.large_number, Function("large_number"), ordinal)

\* ------------------------------------------------------------ the normalizer
\* Code points of the emoji ranges, and the zero-width code points.
Emoji == {"U+1F600", "U+2600"}
ZeroWidth == {"U+200B", "U+200C", "U+200D", "U+FEFF"}

\* The tail of the cliche patterns: [^.!]*[.!]?
ToSentenceEnd == <<Star(NotIn({".", "!"})), Opt(In({".", "!"}))>>

\* TextProcessor.patterns: the patterns clean_text uses.
patterns ==
    [strikethrough |-> Cat(<<Lit("~~"), Grp(1, Plus(NotIn({"~"}))), Lit("~~")>>),
     spoiler |-> Cat(<<Lit(">!"), Grp(1, Plus(NotIn({"!"}))), Lit("!<")>>),
     reddit_link |->
        Cat(<<Lit("["), Grp(1, Plus(NotIn({"]"}))), Lit("]"),
              Lit("("), Grp(2, Plus(NotIn({")"}))), Lit(")")>>),
     url |-> Cat(<<Lit("http"), Opt(Lit("s")), Lit("://"),
                   Plus(NotIn(White \cup {")"}))>>),
     www_url |-> Cat(<<Lit("www."), Plus(NotIn(White \cup {")"}))>>),
     edit_marker |->
        Cat(<<Grp(1, Alt(<<Lit("EDIT"), Lit("Edit"), Lit("UPDATE"), Lit("Update")>>)),
              Star(In(White \cup Digit)), Lit(":")>>),
     tldr |->
        Cat(<<Grp(1, Alt(<<Cat(<<Lit("TL"), Opt(Lit(";")), Lit("DR")>>),
                           Cat(<<Lit("tl"), Opt(Lit(";")), Lit("dr")>>)>>)),
              Star(In(White \cup {":"}))>>),
     gold_thanks |->
        Cat(<<Grp(1, Alt(<<Lit("Thanks for the gold"), Lit("Thank you for the gold"),
                           Lit("Thanks kind stranger")>>))>> \o ToSentenceEnd),
     rip_inbox |->
        Cat(<<Grp(1, Alt(<<Cat(<<Lit("RIP "), Opt(Grp(2, Lit("my "))), Lit("inbox")>>),
                           Cat(<<Lit("inbox "), Opt(Grp(3, Lit("is "))), Lit("dead")>>)>>))>>
            \o ToSentenceEnd),
     this_blew_up |->
        Cat(<<Grp(1, Alt(<<Lit("This blew up"), Lit("This got big"),
                           Lit("Wow this blew up")>>))>> \o ToSentenceEnd),
     throwaway |->
        Cat(<<Grp(1, Alt(<<Lit("Throwaway account"),
                           Lit("Throwaway for obvious reasons")>>))>> \o ToSentenceEnd),
     age_gender |->
        Cat(<<Lit("["), Grp(1, Plus(In(Digit))), Star(In(White)),
              Grp(2, In({"M", "F", "m", "f"})), Lit("]")>>),
     multiple_spaces |-> Plus(In(White)),
     multiple_newlines |-> Rep(Lit("\n"), 3, Unbounded),
     emoji |-> In(Emoji),
     abbreviations |->
        <<<<"AITA", "Am I the asshole">>, <<"YTA", "You're the asshole">>,
          <<"NTA", "Not the asshole">>, <<"ESH", "Everyone sucks here">>,
          <<"NAH", "No assholes here">>, <<"TIFU", "Today I fucked up">>,
          <<"TIL", "Today I learned">>, <<"ELI5", "Explain like I'm five">>,
          <<"AMA", "Ask me anything">>, <<"IAMA", "I am a">>,
          <<"DAE", "Does anyone else">>, <<"TBH", "To be honest">>,
          <<"IMO", "In my opinion">>, <<"IMHO", "In my humble opinion">>,
          <<"AFAIK", "As far as I know">>, <<"IIRC", "If I recall correctly">>,
          <<"FTFY", "Fixed that for you">>, <<"ETA", "Edited to add">>,
          <<"IANAL", "I am not a lawyer">>, <<"SO", "Significant other">>,
          <<"OP", "Original poster">>, <<"OC", "Original content">>>>]

Remove == Template(<<>>)
Keep(k) == Template(<<Ref(k)>>)

\* TextProcessor._remove_reddit_cliches
remove_reddit_cliches(text) ==
    LET gold == re_sub(IgnoreCase(patterns.gold_thanks), Remove, text)
        inbox == re_sub(IgnoreCase(patterns.rip_inbox), Remove, gold)
        blew == re_sub(IgnoreCase(patterns.this_blew_up), Remove, inbox)
    IN  re_sub(IgnoreCase(patterns.throwaway), Remove, blew)

\* text.split('\n')
RECURSIVE SplitLines(_)
SplitLines(text) ==
    IF "\n" \notin Range(text) THEN <<text>>
    ELSE LET i == CHOOSE i \in 1..Len(text) :
                     text[i] = "\n" /\ \A j \in 1..(i - 1) : text[j] # "\n"
         IN  <<SubSeq(text, 1, i - 1)>> \o SplitLines(SubSeq(text, i + 1, Len(text)))

\* text.strip()
RECURSIVE strip(_)
strip(text) ==
    IF text # <<>> /\ Head(text) \in White THEN strip(Tail(text))
    ELSE IF text # <<>> /\ text[Len(text)] \in White
    THEN strip(SubSeq(text, 1, Len(text) - 1))
    ELSE text

\* The quote marker of a line of _process_markdown (lines 204-209).
Unquote(line) ==
    IF strip(line) # <<>> /\ Head(strip(line)) = ">"
    THEN re_sub(Cat(<<At("bol"), Plus(Lit(">")), Star(In(White))>>), Remove, line)
    ELSE line

\* The pattern mark{min,}([^mark]+)mark{min,} of bold and italic text.
Emphasis(mark, min, max) ==
    Cat(<<Rep(Lit(mark), min, max), Grp(1, Plus(NotIn({mark}))), Rep(Lit(mark), min, max)>>)

\* TextProcessor._process_markdown
process_markdown(text) ==
    LET strike == re_sub(patterns.strikethrough, Keep(1), text)
        spoiler == re_sub(patterns.spoiler, Keep(1), strike)
        lines == SplitLines(spoiler)
        quotes == Join(Tuple([i \in 1..Len(lines) |-> Unquote(lines[i])]), <<"\n">>)
        bold == re_sub(Emphasis("*", 2, Unbounded), Keep(1), quotes)
        italic == re_sub(Emphasis("*", 1, 1), Keep(1), bold)
        under == re_sub(Emphasis("_", 2, Unbounded), Keep(1), italic)
    IN  re_sub(Emphasis("_", 1, 1), Keep(1), under)

\* The pattern prefix([\w-]+) of a mention.
Mention(prefix) == <<Lit(prefix), Grp(1, Plus(In(WordChar \cup {"-"})))>>

\* TextProcessor._process_mentions
process_mentions(text) ==
    LET user == Template(<<Text("user "), Ref(1)>>)
        subreddit == Template(<<Text("subreddit "), Ref(1)>>)
        slash_u == re_sub(IgnoreCase(Cat(Mention("/u/"))), user, text)
        u == re_sub(IgnoreCase(Cat(Mention("u/"))), user, slash_u)
        slash_r == re_sub(IgnoreCase(Cat(Mention("/r/"))), subreddit, u)
    IN  re_sub(IgnoreCase(Cat(<<NotBehind({"/"})>> \o Mention("r/"))), subreddit, slash_r)

\* TextProcessor._process_links
process_links(text) ==
    LET named == re_sub(patterns.reddit_link, Keep(1), text)
        url == re_sub(patterns.url, Template(<<Text("link removed")>>), named)
    IN  re_sub(patterns.www_url, Template(<<Text("link removed")>>), url)

\* The two substitutions of _expand_abbreviations for one abbreviation.
ExpandOne(text, abbr, expansion) ==
    LET as_is == re_sub(Cat(<<At("wb"), LitSeq(abbr), At("wb")>>),
                        Template(<<[ref |-> 0, text |-> expansion]>>), text)
    IN  re_sub(Cat(<<At("wb"), LitSeq(LowerText(abbr)), At("wb")>>),
               Template(<<[ref |-> 0, text |-> LowerText(expansion)]>>), as_is)

\* TextProcessor._expand_abbreviations, from the k-th abbreviation on.
RECURSIVE expand_abbreviations(_, _)
expand_abbreviations(text, k) ==
    IF k > Len(patterns.abbreviations) THEN text
    ELSE expand_abbreviations(
            ExpandOne(text, Str(patterns.abbreviations[k][1]),
                      Str(patterns.abbreviations[k][2])), k + 1)

\* TextProcessor._process_metadata
process_metadata(text) ==
    LET age == re_sub(patterns.age_gender, Function("age_gender"), text)
        removed == re_sub(Lit("[removed]"), Remove, age)
        deleted == re_sub(Lit("[deleted]"), Remove, removed)
    IN  re_sub(Lit("[removed by moderator]"), Remove, deleted)

\* TextProcessor._clean_spacing, once the emoji class has compiled.
clean_spacing(text) ==
    LET emoji == re_sub(patterns.emoji, Remove, text)
        edit == re_sub(patterns.edit_marker, Template(<<Text("\n\nEdit: ")>>), emoji)
        tldr == re_sub(IgnoreCase(patterns.tldr),
                       Template(<<Text("\n\nToo long, didn't read: ")>>), edit)
        spaces == re_sub(patterns.multiple_spaces, Template(<<Text(" ")>>), tldr)
    IN  re_sub(patterns.multiple_newlines, Template(<<Text("\n\n")>>), spaces)

\* TextProcessor._process_title
process_title(text) ==
    LET emphasis == re_sub(Cat(<<Rep(In({"!", "?"}), 2, Unbounded), At("eol")>>),
                           Template(<<Text("?")>>), text)
    IN  IF emphasis # <<>> /\ emphasis[Len(emphasis)] \notin {".", "!", "?"}
        THEN Append(emphasis, ".") ELSE emphasis

\* TextProcessor._final_cleanup
final_cleanup(text) ==
    LET visible == re_sub(In(ZeroWidth), Remove, strip(text))
    IN  re_sub(Cat(<<Grp(1, In({".", "!", "?"})), Grp(2, In(Range(UpperLetters)))>>),
               Template(<<Ref(1), Text(" "), Ref(2)>>), visible)

\* The class of line 54 as re compiles it. The file stores the class as the
\* bytes of emoji read in a one-byte encoding, and its first range then runs
\* from U+20AC down to U+00F0: re.sub raises re.error (bad character range)
\* whatever the text. Read as the emoji the bytes encode, the class compiles.
EmojiReadings == {"stored", "emoji"}

\* Steps 1 to 9 of TextProcessor.clean_text: what statement k assigns to the
\* local text.
Step(k, text, is_title) ==
    CASE k = 1 -> remove_reddit_cliches(text)
      [] k = 2 -> process_markdown(text)
      [] k = 3 -> process_mentions(text)
      [] k = 4 -> process_links(text)
      [] k = 5 -> expand_abbreviations(text, 1)
      [] k = 6 -> process_metadata(text)
      [] k = 7 -> clean_spacing(text)
      [] k = 8 -> IF is_title THEN process_title(text) ELSE text
      [] k = 9 -> final_cleanup(text)

\* The texts made of at most n of the given pieces, one after another.
TextsOf(pieces, n) ==
    {Join([i \in DOMAIN f |-> pieces[f[i]]], <<>>) :
        f \in UNION {[1..k -> 1..Len(pieces)] : k \in 0..n}}

\* What the normalizer is tried on: a named link, alone and inside a named
\* link, emphasis, a mention, an abbreviation, an edit marker, an age marker,
\* emphatic punctuation, a sentence break, a summary marker, a URL, a cliche,
\* a quote, white space and an emoji.
CleanPieces ==
    <<Str("[[a](b)](c)"), Str("[a](b)"), Str("**a**"), Str("u/bob"), Str("AITA"),
      Str("EDIT:"), Str("[28M]"), Str("Hi!!"), Str(" "), Str("a.B"), Str("tl;dr"),
      Str("http://x.y"), Str("Thanks for the gold!"), Str("> q"), Str("\n"),
      <<"U+1F600">>>>

CleanInputs == TextsOf(CleanPieces, MaxCleanPieces)

\* A call of clean_text: an empty text is returned at once, any other text
\* goes through the steps. `text` is the argument, `local` the local text, `step`
\* the step to run next.
CleanCall(text, is_title, reading) ==
    /\ last.op = "none"
    /\ last' = [op |-> "clean_text", text |-> text, is_title |-> is_title,
                reading |-> reading, again |-> FALSE, local |-> text, step |-> 1,
                returned |-> text = <<>>, raised |-> FALSE]
    /\ UNCHANGED queue_vars

\* The call is under way.
InClean == last.op = "clean_text" /\ ~last.returned /\ ~last.raised

\* One step of the call. Step 7 is where the emoji class is compiled.
CleanStep ==
    /\ InClean
    /\ last.step <= 9
    /\ last' = IF last.step = 7 /\ last.reading = "stored"
               THEN [last EXCEPT !.raised = TRUE]
               ELSE [last EXCEPT !.local = Step(last.step, last.local, last.is_title),
                                 !.step = last.step + 1]
    /\ UNCHANGED queue_vars

\* return text
CleanReturn ==
    /\ InClean
    /\ last.step > 9
    /\ last' = [last EXCEPT !.returned = TRUE]
    /\ UNCHANGED queue_vars

\* A call of clean_text on the text the call before it returned.
CleanAgain ==
    /\ last.op = "clean_text"
    /\ last.returned
    /\ ~last.again
    /\ last' = [last EXCEPT !.text = last.local, !.again = TRUE, !.step = 1,
                            !.returned = last.local = <<>>]
    /\ UNCHANGED queue_vars

\* The caller goes on after the call.
CleanOver ==
    /\ last.op = "clean_text"
    /\ last.returned \/ last.raised
    /\ last' = [op |-> "none"]
    /\ UNCHANGED queue_vars

CleanNext ==
    \/ /\ NoCall
       /\ \E text \in CleanInputs, is_title \in BOOLEAN, reading \in EmojiReadings :
             CleanCall(text, is_title, reading)
    \/ CleanStep
    \/ CleanReturn
    \/ CleanAgain
    \/ CleanOver

SpecClean == Init /\ [][CleanNext]_vars

\* ------------------------------------------------------------ C19
\* C19: for every text and in title and in body mode, clean_text returns a
\* text, and clean_text of that text returns it unchanged; texts with a named
\* link inside a named link included.
C19_NormalizeIdempotent ==
    last.op = "clean_text" =>
       /\ ~last.raised
       /\ (last.returned /\ last.again) => last.local = last.text

\* ------------------------------------------------------------ the expander's calls
\* What the expander is tried on: amounts with one and two currency signs,
\* a percentage, a time, ordinals, a grouped and a plain number.
ExpandPieces ==
    <<Str("$"), Str("5"), Str("$1.50"), Str("50%"), Str("5:30 pm"), Str("21st"),
      Str("2nd"), Str("1,000"), Str("100"), Str(" ")>>

ExpandInputs == TextsOf(ExpandPieces, MaxPieces)

\* A call of _expand_numbers.
ExpandCall(text) ==
    /\ last.op = "none"
    /\ last' = [op |-> "_expand_numbers", text |-> text, again |-> FALSE,
                out |-> expand_numbers(text)]
    /\ UNCHANGED queue_vars

\* A call of _expand_numbers on the text the call before it returned.
ExpandAgain ==
    /\ last.op = "_expand_numbers"
    /\ ~last.again
    /\ last' = [op |-> "_expand_numbers", text |-> last.out, again |-> TRUE,
                out |-> expand_numbers(last.out)]
    /\ UNCHANGED queue_vars

ExpandNext ==
    \/ /\ NoCall
       /\ \E text \in ExpandInputs : ExpandCall(text)
    \/ ExpandAgain
    \/ CallReturns

SpecExpand == Init /\ [][ExpandNext]_vars

\* ------------------------------------------------------------ C20
\* C20: expanding the output of _expand_numbers again gives the same text,
\* for every input, those with a repeated currency sign before an amount
\* included.
C20_ExpansionIdempotent ==
    (last.op = "_expand_numbers" /\ last.again) => last.out = last.text

\* ------------------------------------------------------------ add_subreddit_posts
\* Priority arguments far outside and at the edges of 1..10.
WidePriorityArgs == {-1000, -1, 0, 1, 5, 10, 11, 1000}

\* Scores of fetched posts and min_score arguments.
Scores == {-250, -1, 0, 550, 1000, 500000}
MinScores == {-300, 0, 100}

\* A fetched post: a post with its score.
ScoredPosts == {[id |-> post.id, tts_text |-> post.tts_text, score |-> score] :
                   post \in Posts, score \in Scores}

\* What reddit_client.fetch_subreddit_posts may return.
ScoredListings == UNION {[1..n -> ScoredPosts] : n \in 0..MaxBatch}

\* An add_post that stores the priority as given.
add_post_unclamped(q, post, priority, t) ==
    DictSet(q, QueueId(post, t), [NewItem(post, priority, t) EXCEPT !.priority = priority])

\* add_post without its save: the queue map after line 67.
add_post(q, post, priority, t) == DictSet(q, QueueId(post, t), NewItem(post, priority, t))

\* min(10, max(1, post.get('score', 0) // 100)); // rounds down, as \div does.
ScorePriority(score) == Min(10, Max(1, score \div 100))

\* The loop of add_subreddit_posts (lines 100-106) from post i on; st holds the
\* queue map, the ids appended so far, the clock and the logs. Each add_post
\* writes the snapshot file, so the clock has moved on when it returns.
RECURSIVE AddListed(_, _, _, _)
AddListed(st, posts, min_score, i) ==
    IF i > Len(posts) THEN st
    ELSE IF posts[i].score >= min_score
    THEN LET k == QueueId(posts[i], st.now)
         IN  AddListed([queue |-> add_post(st.queue, posts[i],
                                           ScorePriority(posts[i].score), st.now),
                        queue_ids |-> Append(st.queue_ids, k),
                        now |-> st.now + 1,
                        arrivals |-> Append(Without(st.arrivals, k), k),
                        failures |-> Put(st.failures, k, 0)],
                       posts, min_score, i + 1)
    ELSE AddListed(st, posts, min_score, i + 1)

\* AudioQueue.add_subreddit_posts, the client having fetched `posts`.
AddSubredditPosts(posts, min_score) ==
    /\ pc = "idle"
    /\ last.op = "none"
    /\ LET st == AddListed([queue |-> queue, queue_ids |-> <<>>, now |-> now,
                            arrivals |-> arrivals, failures |-> failures],
                           posts, min_score, 1)
       IN  /\ adds + Len(st.queue_ids) <= MaxBatch
           /\ st.now <= MaxTime
           /\ queue' = st.queue
           /\ queue_file' = IF st.queue_ids = <<>> THEN queue_file ELSE SaveQueue(queue')
           /\ now' = st.now
           /\ arrivals' = st.arrivals
           /\ failures' = st.failures
           /\ adds' = adds + Len(st.queue_ids)
           /\ last' = [op |-> "add_subreddit_posts", posts |-> posts,
                       min_score |-> min_score, out |-> st.queue_ids]
    /\ UNCHANGED <<audio_generator, metadata_file, audio_files, pc, pending_items,
                   cur, stats, attempted, direct>>

\* AudioQueue.add_post with any priority argument; the call is recorded with
\* the queue map before and after it.
AddPostCall(post, priority) ==
    /\ pc = "idle"
    /\ last.op = "none"
    /\ adds < MaxBatch
    /\ now < MaxTime
    /\ queue' = add_post(queue, post, priority, now)
    /\ queue_file' = SaveQueue(queue')
    /\ arrivals' = Append(Without(arrivals, QueueId(post, now)), QueueId(post, now))
    /\ failures' = Put(failures, QueueId(post, now), 0)
    /\ now' = now + 1
    /\ adds' = adds + 1
    /\ last' = [op |-> "add_post", post |-> post, priority |-> priority,
                before |-> queue, after |-> queue', out |-> QueueId(post, now)]
    /\ UNCHANGED <<audio_generator, metadata_file, audio_files, pc, pending_items,
                   cur, stats, attempted, direct>>

\* The caller goes on after add_post or add_subreddit_posts.
AddReturns ==
    /\ last.op \in {"add_post", "add_subreddit_posts"}
    /\ last' = [op |-> "none"]
    /\ UNCHANGED queue_vars

\* Adding posts one by one and by listing.
PriorityNext ==
    \/ \E post \in Posts, priority \in WidePriorityArgs : AddPostCall(post, priority)
    \/ \E posts \in ScoredListings, min_score \in MinScores :
          AddSubredditPosts(posts, min_score)
    \/ AddReturns

SpecPriority == Init /\ [][PriorityNext]_vars

\* ------------------------------------------------------------ C21
\* The priority add_post stores for an argument: 1 below 1, 10 above 10.
Clamped(priority) ==
    IF priority < 1 THEN 1 ELSE IF priority > 10 THEN 10 ELSE priority

\* C21: every item in the queue has an integer priority from 1 to 10, whatever
\* priority argument add_post was given and whatever score the posts of
\* add_subreddit_posts have; an argument below 1 is stored as 1, one above 10
\* as 10.
C21_PriorityClamped ==
    /\ \A i \in 1..Len(queue) : queue[i].priority \in 1..10
    /\ (last.op = "add_post" /\ last.out \in Keys(queue)) =>
          Item(queue, last.out).priority = Clamped(last.priority)

\* add_subreddit_posts has queued a post with a negative score and a post
\* with a score above 1000.
C21_Witness ==
    /\ last.op = "add_subreddit_posts"
    /\ \E i, j \in 1..Len(last.posts) :
          /\ last.posts[i].score < 0
          /\ last.posts[j].score > 1000
          /\ \E a, b \in 1..Len(queue) :
                /\ queue[a].post_data = last.posts[i] /\ queue[a].priority = 1
                /\ queue[b].post_data = last.posts[j] /\ queue[b].priority = 10

\* ------------------------------------------------------------ retry_failed, recorded
\* AudioQueue.retry_failed with the queue map before and after the call and
\* the list it returns.
RetryFailedCall ==
    /\ pc = "idle"
    /\ last.op = "none"
    /\ queue' = [i \in 1..Len(queue) |-> ResetItem(queue[i])]
    /\ queue_file' = IF RetryReturn(queue) # <<>> THEN SaveQueue(queue') ELSE queue_file
    /\ last' = [op |-> "retry_failed", before |-> queue, after |-> queue',
                out |-> RetryReturn(queue)]
    /\ UNCHANGED <<now, audio_generator, metadata_file, audio_files, pc,
                   pending_items, cur, stats, arrivals, attempted, failures,
                   adds, direct>>

RetryNext ==
    \/ \E post \in Posts : AddPost(post, 7, 0)
    \/ RetryFailedCall
    \/ CallReturns
    \/ ClearCompleted
    \/ ProcessBegin(<<>>, "gtts")
    \/ ProcessClaim
    \/ \E env \in Envs("gtts") : ProcessGenerate(env)
    \/ ProcessReturn

SpecRetry == Init /\ [][RetryNext]_vars

\* ------------------------------------------------------------ C22
\* The places of the items retry_failed is to reset.
ToReset(q) == {i \in 1..Len(q) : q[i].status = "failed" /\ q[i].attempts < 3}

\* C22: retry_failed makes each failed item with attempts < 3 pending and
\* clears its error, leaving its attempts, result, priority, added_at,
\* processed_at and post data as they were; it leaves every other item as it
\* was; it returns exactly the ids of the items it reset.
C22_RetryFrame ==
    last.op = "retry_failed" =>
       /\ Len(last.after) = Len(last.before)
       /\ \A i \in 1..Len(last.before) :
             IF i \in ToReset(last.before)
             THEN /\ last.after[i].status = "pending"
                  /\ last.after[i].error = None
                  /\ \A f \in DOMAIN last.before[i] \ {"status", "error"} :
                        last.after[i][f] = last.before[i][f]
             ELSE last.after[i] = last.before[i]
       /\ Len(last.out) = Cardinality(ToReset(last.before))
       /\ Range(last.out) = {last.before[i].id : i \in ToReset(last.before)}

\* retry_failed has reset a failed item that held an error and has left alone
\* a failed item at four attempts.
C22_Witness ==
    /\ last.op = "retry_failed"
    /\ \E i, j \in 1..Len(last.before) :
          /\ i \in ToReset(last.before)
          /\ last.before[i].error = "boom"
          /\ last.after[i].error = None
          /\ last.before[j].status = "failed"
          /\ last.before[j].attempts = 4
          /\ last.after[j].status = "failed"

\* ------------------------------------------------------------ snapshot writes
\* How a write of the snapshot file ends: it completes, open(..., 'w') raises
\* (the file stays as it was), or json.dump raises after open has emptied the
\* file. _save_queue logs the exception and returns.
Writes == {"ok", "open_raises", "dump_raises"}

\* AudioQueue._save_queue on the file f.
save_queue(q, f, write) ==
    CASE write = "ok" -> JsonDump(q)
      [] write = "open_raises" -> f
      [] write = "dump_raises" -> TruncatedFile

\* A queue call that mutates the map: the map it leaves, whether it saves,
\* and how the write ends.
Mutation(op, q, saves, write) ==
    /\ pc = "idle"
    /\ last.op = "none"
    /\ queue' = q
    /\ queue_file' = IF saves THEN save_queue(q, queue_file, write) ELSE queue_file
    /\ last' = [op |-> op, saves |-> saves, write |-> write]
    /\ arrivals' = Within(arrivals, Keys(q))
    /\ failures' = [k \in Keys(q) |-> IF k \in DOMAIN failures THEN failures[k] ELSE 0]
    /\ UNCHANGED <<audio_generator, metadata_file, audio_files, pc, pending_items,
                   cur, stats, attempted>>

\* add_post
AddPostSaved(post, write) ==
    /\ adds < MaxAdds
    /\ now < MaxTime
    /\ Mutation("add_post", add_post(queue, post, 7, now), TRUE, write)
    /\ now' = now + 1
    /\ adds' = adds + 1
    /\ UNCHANGED direct

\* update_status: nothing is written for an unknown id.
UpdateStatusSaved(k, status, error, write) ==
    /\ direct < MaxUpdates
    /\ Mutation("update_status", update_status(queue, k, status, NoResult, error, now),
                k \in Keys(queue), write)
    /\ direct' = direct + 1
    /\ UNCHANGED <<now, adds>>

\* retry_failed: written when an item was reset.
RetryFailedSaved(write) ==
    /\ Mutation("retry_failed", [i \in 1..Len(queue) |-> ResetItem(queue[i])],
                RetryReturn(queue) # <<>>, write)
    /\ UNCHANGED <<now, adds, direct>>

\* clear_completed: written when an item was removed.
ClearCompletedSaved(write) ==
    /\ Mutation("clear_completed", SelectSeq(queue, NotCompleted),
                SelectSeq(queue, IsCompleted) # <<>>, write)
    /\ UNCHANGED <<now, adds, direct>>

\* Ids a caller of update_status may name: those of the queue and one more.
UnknownId == <<0, 0>>

SaveNext ==
    \/ \E post \in Posts, write \in Writes : AddPostSaved(post, write)
    \/ \E k \in Keys(queue) \cup {UnknownId}, status \in {"completed", "failed"},
          error \in {None, "boom"}, write \in Writes :
          UpdateStatusSaved(k, status, error, write)
    \/ \E write \in Writes : RetryFailedSaved(write)
    \/ \E write \in Writes : ClearCompletedSaved(write)
    \/ CallReturns

SpecSave == Init /\ [][SaveNext]_vars

\* ------------------------------------------------------------ C23
\* C23: after add_post, update_status, retry_failed or clear_completed has
\* returned, a queue loaded from the snapshot file is the queue map in memory,
\* also when a write of the file failed.
C23_SnapshotIsQueue ==
    last.op \in {"add_post", "update_status", "retry_failed", "clear_completed"} =>
       LoadQueue(queue_file) = queue

\* ------------------------------------------------------------ post records
\* Dicts as objects. heap is the sequence of the dicts made so far, a
\* reference to a dict is its place in heap, and a function that returns a
\* dict returns the heap it leaves and the reference. Texts are sequences of
\* words, <<>> the empty string.
Get(d, key, default) == IF key \in DOMAIN d THEN d[key] ELSE default

\* d[key] = value on the dict at ref.
SetKey(heap, ref, key, value) == [heap EXCEPT ![ref] = Put(heap[ref], key, value)]

\* A dict literal, or a dict a callee has built.
NewDict(heap, d) == [heap |-> Append(heap, d), ref |-> Len(heap) + 1]

\* A copy() that hands back the dict itself.
dict_same(heap, ref) == [heap |-> heap, ref |-> ref]

\* dict.copy(): a new dict with the same keys and values.
dict_copy(heap, ref) == NewDict(heap, heap[ref])

\* clean_text and filter_text, as far as a record can tell: a text that is
\* not the one given, the empty text staying empty.
Cleaned(text) == IF text = <<>> THEN <<>> ELSE <<"cleaned">> \o text
Censored(text) == IF text = <<>> THEN <<>> ELSE <<"censored">> \o text

\* TextProcessor.process_post on the dict at post (lines 99-128).
process_post_on(heap, post) ==
    LET title == Get(heap[post], "title", <<>>)
        body == Get(heap[post], "selftext", <<>>)
        clean_title == Cleaned(title)
        clean_body == IF body # <<>> /\ body \notin {<<"[removed]">>, <<"[deleted]">>}
                      THEN Cleaned(body) ELSE <<>>
        tts_text == IF clean_body # <<>> THEN clean_title \o <<".">> \o clean_body
                    ELSE clean_title
        result == dict_copy(heap, post)
        h1 == SetKey(result.heap, result.ref, "processed_title", clean_title)
        h2 == SetKey(h1, result.ref, "processed_body", clean_body)
        h3 == SetKey(h2, result.ref, "tts_text", tts_text)
        h4 == SetKey(h3, result.ref, "text_length", Len(tts_text))
        h5 == SetKey(h4, result.ref, "processing_notes", <<"notes">>)
    IN  [heap |-> h5, ref |-> result.ref]

\* The filtering of one key of filter_post (lines 97-110).
FilterKey(heap, ref, key) ==
    IF key \in DOMAIN heap[ref] THEN SetKey(heap, ref, key, Censored(heap[ref][key]))
    ELSE heap

\* ContentFilter.filter_post on the dict at post (lines 84-119), filter_nsfw
\* at its default; skip_nsfw is the configuration's, warnings whether
\* detect_sensitive_content finds any.
filter_post_on(heap, post, skip_nsfw, warnings) ==
    LET filtered_post == dict_copy(heap, post)
        ref == filtered_post.ref
        nsfw == Get(heap[post], "over_18", FALSE)
        h1 == IF nsfw THEN SetKey(filtered_post.heap, ref, "content_warning", <<"NSFW content">>)
              ELSE filtered_post.heap
        h2 == FilterKey(FilterKey(FilterKey(h1, ref, "processed_title"), ref,
                                  "processed_body"), ref, "tts_text")
        h3 == IF warnings THEN SetKey(h2, ref, "content_warnings", <<"violence">>) ELSE h2
    IN  IF nsfw /\ skip_nsfw
        THEN [heap |-> SetKey(SetKey(h1, ref, "skip_reason", <<"NSFW content filtered">>),
                              ref, "should_skip", TRUE),
              ref |-> ref]
        ELSE [heap |-> SetKey(h3, ref, "filter_stats", <<"stats">>), ref |-> ref]

\* What decides the way through generate_from_post: the filter's settings and
\* findings, and where the call ends.
RecordEnvs ==
    [skip_nsfw : BOOLEAN, warnings : BOOLEAN,
     ends : {"stored", "unsafe", "raise", "fail", "ok"}]

\* AudioGenerator.generate_from_post on the dict at post (lines 70-148): the
\* stored record, the unsafe verdict, the engine's exception, the engine's
\* failure dict, or the engine's result completed from the post.
generate_from_post_on(heap, post, env) ==
    LET post_id == Get(heap[post], "id", "unknown")
        processed_post == process_post_on(heap, post)
        filtered_post == filter_post_on(processed_post.heap, processed_post.ref,
                                        env.skip_nsfw, env.warnings)
        after == filtered_post.heap
        result == NewDict(after, [success |-> TRUE])
        h1 == SetKey(result.heap, result.ref, "post_id", post_id)
        h2 == SetKey(h1, result.ref, "title", Get(after[post], "title", <<>>))
        h3 == SetKey(h2, result.ref, "content_warnings",
                     Get(after[filtered_post.ref], "content_warnings", <<>>))
    IN  CASE env.ends = "stored" -> NewDict(heap, [success |-> TRUE, post_id |-> post_id])
          [] env.ends = "unsafe" ->
                NewDict(after, [post_id |-> post_id, success |-> FALSE,
                                reason |-> "Content filtered as unsafe"])
          [] env.ends = "raise" ->
                NewDict(after, [post_id |-> post_id, success |-> FALSE, error |-> "boom"])
          [] env.ends = "fail" -> NewDict(after, [success |-> FALSE, error |-> "boom"])
          [] env.ends = "ok" -> [heap |-> h3, ref |-> result.ref]

\* The post records given: with and without a body, a removed body, adult
\* or not, fresh or already holding the keys the stages write.
GivenPosts ==
    LET fresh == [id : PostIds, title : {<<"title">>},
                  selftext : {<<>>, <<"[removed]">>, <<"body">>}, over_18 : BOOLEAN]
    IN  fresh \cup {Put(Put(Put(p, "tts_text", <<"old">>), "processed_title", <<"old">>),
                        "should_skip", FALSE) : p \in fresh}

\* A call of one of the three functions with a post record. `given` is the
\* record as it was at the call, `post` the reference passed.
RecordCall(op, given, out) ==
    /\ last.op = "none"
    /\ last' = [op |-> op, given |-> given, post |-> 1, heap |-> out.heap, out |-> out.ref]
    /\ UNCHANGED queue_vars

\* add_post stores the reference it is given (line 57), process_queue passes
\* item['post_data'] to generate_from_post (lines 147 and 154) and writes the
\* outcome to the item's status, result and error.
QueuedRecordCall(given, env) ==
    /\ last.op = "none"
    /\ LET item == [post_data |-> 1, status |-> "pending"]
           out == generate_from_post_on(<<given>>, item.post_data, env)
       IN  last' = [op |-> "process_queue", given |-> given, post |-> item.post_data,
                    heap |-> out.heap, out |-> out.ref]
    /\ UNCHANGED queue_vars

RecordNext ==
    \/ \E given \in GivenPosts :
          RecordCall("process_post", given, process_post_on(<<given>>, 1))
    \/ \E given \in GivenPosts, skip_nsfw, warnings \in BOOLEAN :
          RecordCall("filter_post", given, filter_post_on(<<given>>, 1, skip_nsfw, warnings))
    \/ \E given \in GivenPosts, env \in RecordEnvs :
          RecordCall("generate_from_post", given, generate_from_post_on(<<given>>, 1, env))
    \/ \E given \in GivenPosts, env \in RecordEnvs : QueuedRecordCall(given, env)
    \/ CallReturns

SpecRecord == Init /\ [][RecordNext]_vars

\* ------------------------------------------------------------ C24
RecordCalled ==
    last.op \in {"process_post", "filter_post", "generate_from_post", "process_queue"}

\* C24: process_post, filter_post and generate_from_post leave every field of
\* the post record they are given as it was and return another record; the
\* post_data of a queue item is after process_queue what add_post stored.
C24_PostNotMutated ==
    RecordCalled =>
       /\ last.heap[last.post] = last.given
       /\ last.out # last.post

\* process_post has returned a record with a new tts_text for a post that
\* already held one.
C24_Witness ==
    /\ last.op = "process_post"
    /\ "tts_text" \in DOMAIN last.given
    /\ last.heap[last.out].tts_text # last.given.tts_text
    /\ last.heap[last.out].id = last.given.id

\* ------------------------------------------------------------ C25
\* The number of pending items of the queue.
PendingCount == Len(SelectSeq(queue, IsPending))

\* C25: process_queue(max_items = n), n >= 0, sets out to attempt exactly
\* min(n, number of pending items) items and attempts each of them once, and
\* the statistics it returns count them: processed = successful + failed =
\* number of items attempted.
C25_AtMostMaxItems ==
    [][/\ \A n \in 0..2, engine_type \in EngineTypes :
             ProcessBegin(<<n>>, engine_type) =>
                Len(pending_items') = Min(n, PendingCount)
       /\ pc' = "return" =>
             /\ Len(attempted') = Len(pending_items')
             /\ stats'.processed = Len(attempted')
             /\ stats'.processed = stats'.successful + stats'.failed]_vars

\* ------------------------------------------------------------ restarts, with fairness
\* Posts are added, process_queue is called again and again, and the process
\* may die between two statements of process_queue and start again.
LiveNext ==
    \/ \E post \in Posts : AddPost(post, 7, 0)
    \/ ProcessBegin(<<>>, "gtts")
    \/ ProcessClaim
    \/ \E env \in Envs("gtts") : ProcessGenerate(env)
    \/ ProcessReturn
    \/ Crash

\* process_queue keeps being called, and a call that is under way goes on
\* unless the process dies every time.
SpecLive ==
    /\ Init
    /\ [][LiveNext]_vars
    /\ WF_vars(ProcessBegin(<<>>, "gtts"))
    /\ SF_vars(ProcessClaim)
    /\ SF_vars(\E env \in Envs("gtts") : ProcessGenerate(env))
    /\ SF_vars(ProcessReturn)

\* ------------------------------------------------------------ C26
\* The queue ids add_post can make.
QueueIds == {<<id, s>> : id \in PostIds, s \in 0..EpochSeconds(MaxTime)}

Settled(k) == k \in Keys(queue) /\ Item(queue, k).status \in {"completed", "failed"}

\* C26: every item added to the queue eventually is completed or failed when
\* process_queue keeps being called, also when the process dies in the middle
\* of a batch and starts again.
C26_AtLeastOnce ==
    \A k \in QueueIds : (k \in Keys(queue)) ~> Settled(k)

\* ------------------------------------------------------------ two generators
\* Posts with a text that passes the safety check, one per id.
TalkingPosts == {[id |-> id, tts_text |-> LongText] : id \in PostIds}

\* The queue generates through the generator it keeps, and the audio routes
\* generate through a generator of their own, made by get_audio_generator;
\* both with the mock engine, which does not fail.
TwoGeneratorsNext ==
    \/ \E post \in TalkingPosts : AddPost(post, 7, 0)
    \/ ProcessBegin(<<>>, "mock")
    \/ ProcessClaim
    \/ \E env \in Envs("mock") : ProcessGenerate(env)
    \/ ProcessReturn
    \/ \E post \in TalkingPosts, env \in Envs("mock") :
          GenerateCall(post, FALSE, "mock", env)

SpecTwoGenerators == Init /\ [][TwoGeneratorsNext]_vars

\* ------------------------------------------------------------ C27
\* The posts the metadata store on disk holds a record for.
StoredPosts(file) == DOMAIN LoadMetadata(file)

\* C27: a post that has a record in the metadata store on disk still has one
\* after any later generation, whichever generator performs it.
C27_NoRecordLost ==
    [][StoredPosts(metadata_file) \subseteq StoredPosts(metadata_file')]_vars

\* ------------------------------------------------------------ adding a post again
\* add_post between status changes, with time passing or not between calls.
ReplaceNext ==
    \/ Tick
    \/ \E post \in Posts : AddPostCall(post, 7)
    \/ AddReturns
    \/ \E k \in Keys(queue), status \in {"processing", "completed", "failed"},
          result \in {NoResult, SomeResult}, error \in {None, "boom"} :
          UpdateStatusCall(k, status, result, error)

SpecReplace == Init /\ [][ReplaceNext]_vars

\* ------------------------------------------------------------ C28
\* The places in the map q of the items added for the post with this id in
\* the epoch second of the time t.
SamePostAndSecond(q, id, t) ==
    {i \in 1..Len(q) : q[i].post_id = id /\ EpochSeconds(q[i].added_at) = EpochSeconds(t)}

\* C28: add_post stores a pending item with attempts 0 and no result and no
\* error. If the queue holds an item added for the same post id in the same
\* epoch second, the new item has that item's queue id and takes its place,
\* whatever its status, result and error were, and every other item is as it
\* was; otherwise the new item is added and every item is as it was.
C28_SameSecondReplaces ==
    last.op = "add_post" =>
       LET new == Item(last.after, last.out)
           same == SamePostAndSecond(last.before, last.post.id, new.added_at)
       IN  /\ new.status = "pending" /\ new.attempts = 0
           /\ new.result = NoResult /\ new.error = None
           /\ new.post_id = last.post.id
           /\ IF same # {}
              THEN /\ last.out \in Keys(last.before)
                   /\ same = {IndexOf(last.before, last.out)}
                   /\ Len(last.after) = Len(last.before)
                   /\ \A i \in 1..Len(last.before) :
                         i \notin same => last.after[i] = last.before[i]
              ELSE /\ last.out \notin Keys(last.before)
                   /\ last.after = Append(last.before, new)

\* add_post has replaced an item that had failed with an error after two
\* attempts, next to an item added for the same post a second earlier.
C28_Witness ==
    /\ last.op = "add_post"
    /\ last.out \in Keys(last.before)
    /\ Item(last.before, last.out).status \in {"failed", "completed"}
    /\ Item(last.before, last.out).attempts > 0
    /\ Item(last.after, last.out).attempts = 0

\* ------------------------------------------------------------ C29
\* The places in the queue map of the items in status processing.
ProcessingItems == {i \in 1..Len(queue) : queue[i].status = "processing"}

\* C29: at most one item has status processing, and it is the item the loop
\* of process_queue is at; while no process_queue call is running, and when
\* the loop has ended, no item has status processing.
C29_OneProcessing ==
    /\ Cardinality(ProcessingItems) <= 1
    /\ pc = "generate" => ProcessingItems = {IndexOf(queue, pending_items[cur])}
    /\ pc \in {"idle", "return"} => ProcessingItems = {}

\* The loop is at the second item of its batch: the first has its outcome
\* and the second is in processing.
C29_Witness ==
    /\ pc = "generate"
    /\ cur = 2
    /\ Item(queue, pending_items[1]).status \in {"completed", "failed"}
    /\ Item(queue, pending_items[2]).status = "processing"

\* ------------------------------------------------------------ C30
\* C30: a process_queue call with engine type e that has items to process
\* generates with a generator of engine type e, whatever engine type earlier
\* calls on the queue object were given.
C30_EngineOfTheCall ==
    [][\A max_items \in MaxItemsArgs, engine_type \in EngineTypes :
          (ProcessBegin(max_items, engine_type) /\ pending_items' # <<>>) =>
             audio_generator'[1].engine_type = engine_type]_vars

====
